---- MODULE Spec2Model ----
(***************************************************************************)
(* Quota-bounded sync of the video metadata cache of mayhem_maker.py:      *)
(* the quota ledger (estimated_units, per_method_today, quota file, PT day *)
(* rollover), the record store (videos.json, removed.json) and the passes  *)
(* refresh_stale, fetch_latest and fetch_all that call the YouTube API.    *)
(***************************************************************************)
EXTENDS Integers, Sequences, FiniteSets, TLC

(***************************************************************************)
(* Bounds of the model.                                                    *)
(***************************************************************************)
\* clock ticks per Pacific day, and the last tick the clock reaches
TicksPerDay == 2
MaxNow == 2
\* ledger calls made by the editor / header in one behaviour of SpecLedger
MaxCalls == 4
\* tasks started in one behaviour of SpecRefresh or SpecDiscover
MaxPasses == 1
\* pages the channel's listing has at most
MaxPages == 2
\* listing calls of one pass the model follows on an endless listing
MaxListings == 6
\* update_site runs in one behaviour of SpecPublish
MaxUpdates == 2

(***************************************************************************)
(* Constants of the program.                                               *)
(***************************************************************************)
DAILY_QUOTA_LIMIT == 10000

Methods ==
    {"videos.list", "search.list", "commentThreads.list", "channels.list",
     "videos.update", "thumbnails.set", "playlistItems.list"}

\* API_COSTS.get(method, 0)
API_COSTS(method) ==
    CASE method = "videos.list" -> 1
      [] method = "search.list" -> 100
      [] method = "commentThreads.list" -> 1
      [] method = "channels.list" -> 1
      [] method = "videos.update" -> 50
      [] method = "thumbnails.set" -> 50
      [] method = "playlistItems.list" -> 1
      [] OTHER -> 0

Max(a, b) == IF a >= b THEN a ELSE b

(***************************************************************************)
(* State.                                                                  *)
(***************************************************************************)
VARIABLES
    now,          \* the wall clock, in ticks
    ledger,       \* estimated_units, last_quota_date_pt, per_method_today, quota_file
    disk_ok,      \* the outcomes a write of a file can have
    lastCall,     \* the last direct ledger call: its name, arguments and result
    nCalls,       \* direct ledger calls made so far
    videos_json,  \* the record store on disk: a sequence of records
    removed_json, \* the removed registry on disk: a set of video ids
    channel_cache,\* lru_cache of fetch_channel_details: TRUE once it has returned
    pc,           \* where the running task is
    run,          \* the locals of the running task
    trace,        \* the network calls the running task has issued
    result,       \* what the last task returned or raised
    nPasses,      \* tasks started so far
    first_run,    \* what a pass that is being repeated did the first time
    videos_dir,   \* the live pages: what each file of VIDEOS_DIR holds
    index_html,   \* the live index.html
    sitemap_xml,  \* the live sitemap.xml
    last_update,  \* what the last update_site returned, and the run before it
    nUpdates,     \* update_site runs so far
    preview,      \* what PREVIEW_DIR holds: the pages, index and sitemap of dry runs
    deployed,     \* the deploy of the last update_site: git's behaviour, calls, log
    last,         \* last[0] of the running deploy: the last fraction _p passed on
    be_last,      \* be_progress._last
    fed,          \* the values the progress composers were fed
    observed,     \* the values passed to the progress observer, in order
    threads,      \* the publishing thread and the trickle thread of a deploy
    workers,      \* the operations in flight: what each runs, on which thread
    interrupted   \* the update_site run that was killed, if one was

ledgerVars == <<ledger, disk_ok, lastCall, nCalls>>
storeVars == <<videos_json, removed_json>>
taskVars == <<channel_cache, pc, run, trace, result, nPasses, first_run>>
siteVars == <<videos_dir, index_html, sitemap_xml, last_update, nUpdates, preview,
              deployed>>
progVars == <<last, be_last, fed, observed, threads>>
uiVars == <<workers, interrupted>>
vars == <<now, ledger, disk_ok, lastCall, nCalls, videos_json, removed_json,
          channel_cache, pc, run, trace, result, nPasses, first_run,
          videos_dir, index_html, sitemap_xml, last_update, nUpdates, preview,
          deployed, last, be_last, fed, observed, threads, workers, interrupted>>

\* _today_pacific(): the Pacific date of the clock, as a day number
today_pacific(t) == t \div TicksPerDay

\* an empty per_method_today dict: .get(method, 0) is 0 for every method
NoSpend == [m \in Methods |-> 0]

RECURSIVE SumOver(_, _)
SumOver(f, S) ==
    IF S = {} THEN 0
    ELSE LET m == CHOOSE x \in S : TRUE IN f[m] + SumOver(f, S \ {m})

\* sum(per_method_today.values())
SumPerMethod(L) == SumOver(L.per_method_today, Methods)

NoFile == [exists |-> FALSE, date_pt |-> 0, units |-> 0, per_method |-> NoSpend]

(***************************************************************************)
(* The quota ledger.                                                       *)
(***************************************************************************)
\* save_quota(): writes date_pt, units, per_method; a failed write is logged
save_quota(L, ok) ==
    IF ok
    THEN [L EXCEPT !.quota_file =
            [exists |-> TRUE, date_pt |-> L.last_quota_date_pt,
             units |-> L.estimated_units, per_method |-> L.per_method_today]]
    ELSE L

\* a rollover that resets the spend and leaves the ledger's date as it was
RolledOver_KeepsDate(L, today) ==
    [L EXCEPT !.estimated_units = 0, !.per_method_today = NoSpend]

\* the reset of a day rollover, shared by load_quota and add_quota_usage
RolledOver(L, today) ==
    [L EXCEPT !.estimated_units = 0, !.per_method_today = NoSpend,
              !.last_quota_date_pt = today]

\* load_quota(): the file's state replaces the memory's, then the day rolls
load_quota(L, today, ok) ==
    LET M == IF L.quota_file.exists
             THEN [L EXCEPT !.estimated_units = L.quota_file.units,
                            !.per_method_today = L.quota_file.per_method,
                            !.last_quota_date_pt = L.quota_file.date_pt]
             ELSE L
    IN  IF M.last_quota_date_pt < today
        THEN save_quota(RolledOver(M, today), ok)
        ELSE M

\* _reload_quota_text(): load_quota(), then the header line is redrawn
reload_quota_text(L, today, ok) == load_quota(L, today, ok)

\* cost = API_COSTS.get(method, 0) * int(mult or 1)
CostOf(method, mult) == API_COSTS(method) * (IF mult = 0 THEN 1 ELSE mult)

\* a rollover check that advances the date and keeps yesterday's spend
ChargeRollover_KeepsSpend(L, today) ==
    IF L.last_quota_date_pt < today
    THEN [L EXCEPT !.last_quota_date_pt = today]
    ELSE L

\* add_quota_usage(method, mult), lines 562-566: the rollover check
ChargeRollover(L, today) ==
    IF L.last_quota_date_pt < today THEN RolledOver(L, today) ELSE L

\* a charge that adds to the total and forgets the per-method map
add_quota_usage_TotalOnly(L, method, mult, today, ok1, ok2) ==
    LET R == ChargeRollover(L, today)
        C == [R EXCEPT !.estimated_units = @ + CostOf(method, mult)]
    IN  reload_quota_text(save_quota(C, ok1), today, ok2)

\* add_quota_usage(method, mult)
add_quota_usage(L, method, mult, today, ok1, ok2) ==
    LET R == ChargeRollover(L, today)
        cost == CostOf(method, mult)
        C == [R EXCEPT !.estimated_units = @ + cost,
                       !.per_method_today[method] = @ + cost]
    IN  reload_quota_text(save_quota(C, ok1), today, ok2)

\* remaining without the clamp at 0
remaining_quota_Unclamped(L) == DAILY_QUOTA_LIMIT - L.estimated_units

\* remaining_quota()
remaining_quota(L) == Max(0, DAILY_QUOTA_LIMIT - L.estimated_units)

\* mark_quota_exhausted()
mark_quota_exhausted(L, today, ok1, ok2) ==
    reload_quota_text(
        save_quota([L EXCEPT !.estimated_units = DAILY_QUOTA_LIMIT], ok1),
        today, ok2)

(***************************************************************************)
(* Initial states.  The module is imported with an empty ledger dated      *)
(* today; the quota file is absent or was left by an earlier session.      *)
(***************************************************************************)
ImportedLedger(t, file) ==
    [estimated_units |-> 0, last_quota_date_pt |-> today_pacific(t),
     per_method_today |-> NoSpend, quota_file |-> file]

\* what an earlier session left: a spend and the split that makes it up
FileOf(date, nVideos, nSearch) ==
    [exists |-> TRUE, date_pt |-> date,
     units |-> nVideos * API_COSTS("videos.list") + nSearch * API_COSTS("search.list"),
     per_method |-> [NoSpend EXCEPT
        !["videos.list"] = nVideos * API_COSTS("videos.list"),
        !["search.list"] = nSearch * API_COSTS("search.list")]]

InitQuotaFiles(t) ==
    {NoFile}
    \cup {FileOf(d, v, s) : d \in 0..today_pacific(t), v \in {0, 99}, s \in {0, 99}}

InitClock == {0}

\* no task is running
NoRun ==
    [task |-> "", videos |-> <<>>, removed |-> {}, cutoff |-> 0, by_ids |-> {},
     i |-> 0, items |-> <<>>, next_page |-> FALSE, pages |-> 0, max_pages |-> 0,
     count |-> 0, errors |-> <<>>, saves |-> 0]
NoTrace == [fetched |-> <<>>, listed |-> 0, served |-> 0, calls |-> <<>>]
NoResult == [status |-> "none", exc |-> "", count |-> 0, errors |-> <<>>]
NoFirstRun == [done |-> FALSE, refreshed |-> {}, failed |-> {}]

\* the file names output_basename can give: a slug, a video id, and a
\* lowercased video id (which names no file: the ids hold capitals)
Names == [kind : {"slug", "id", "lowered id"}, key : 1..3]
\* file_text() of a file that does not exist
NoText == [absent |-> TRUE]
EmptyDir == [name \in Names |-> NoText]
NoFlags == [update_index |-> FALSE, update_videos |-> FALSE, dry_run |-> FALSE,
            force_rebuild |-> FALSE, at |-> -1, instant |-> 0]
NoUpdate == [changed_files |-> <<>>, urls |-> <<>>, flags |-> NoFlags, before |-> NoFlags]

\* progress fractions are counted in units of 1/Unit
Unit == 100000
NoThreads == [main |-> "none", script |-> <<>>, at |-> 0, f |-> 0,
              trickle |-> "none", t |-> 0, tf |-> 0, stop |-> FALSE, rounds |-> 0]

\* no update_site run was killed
NoInterrupt ==
    [pending |-> FALSE, run |-> 0, flags |-> NoFlags, written |-> {}, index |-> FALSE,
     before |-> [dir |-> EmptyDir, index |-> NoText, sitemap |-> NoText]]

\* no progress was reported
NoProgress ==
    /\ workers = <<>>
    /\ interrupted = NoInterrupt
    /\ last = 0
    /\ be_last = 0
    /\ fed = <<>>
    /\ observed = <<>>
    /\ threads = NoThreads

\* no dry run has written a preview
NoPreview == [dir |-> EmptyDir, index |-> NoText, sitemap |-> NoText]

\* nothing was published
\* what git and the remote do when deploy calls them: the steps that raise,
\* whether the work tree has changes, whether a remote is configured
GitWorks == [failing |-> {}, dirty |-> TRUE, origin |-> TRUE]

\* deploy was not called
NoDeploy == [git |-> GitWorks, calls |-> <<>>, output |-> <<>>, urls |-> <<>>]

NoSite ==
    /\ deployed = NoDeploy
    /\ preview = NoPreview
    /\ videos_dir = EmptyDir
    /\ index_html = NoText
    /\ sitemap_xml = NoText
    /\ last_update = NoUpdate
    /\ nUpdates = 0

InitLedger ==
    /\ now \in InitClock
    /\ \E file \in InitQuotaFiles(now) : ledger = ImportedLedger(now, file)
    /\ disk_ok = {TRUE}
    /\ lastCall = [op |-> "none", method |-> "", ret |-> 0, today |-> 0,
                   date_before |-> 0, units_before |-> 0]
    /\ nCalls = 0
    /\ videos_json = <<>>
    /\ removed_json = {}
    /\ channel_cache = FALSE
    /\ pc = "idle"
    /\ run = NoRun
    /\ trace = NoTrace
    /\ result = NoResult
    /\ nPasses = 0
    /\ first_run = NoFirstRun
    /\ NoSite
    /\ NoProgress

(***************************************************************************)
(* Ledger calls, as the editor, the header and the tasks make them.        *)
(***************************************************************************)
Mults == {0, 1}

Called(op, method, ret) ==
    /\ nCalls < MaxCalls
    /\ nCalls' = nCalls + 1
    /\ lastCall' = [op |-> op, method |-> method, ret |-> ret,
                    today |-> today_pacific(now),
                    date_before |-> ledger.last_quota_date_pt,
                    units_before |-> ledger.estimated_units]
    /\ UNCHANGED <<storeVars, taskVars, siteVars, uiVars, progVars>>

\* be_add_quota / any caller of add_quota_usage
AddQuotaUsage ==
    \E method \in Methods, mult \in Mults, ok1 \in disk_ok, ok2 \in disk_ok :
        /\ ledger' = add_quota_usage(ledger, method, mult, today_pacific(now), ok1, ok2)
        /\ Called("add_quota_usage", method, CostOf(method, mult))
        /\ UNCHANGED <<now, disk_ok>>

\* _quota_trip_ui / _do_refresh_stale's handler
MarkQuotaExhausted ==
    \E ok1 \in disk_ok, ok2 \in disk_ok :
        /\ ledger' = mark_quota_exhausted(ledger, today_pacific(now), ok1, ok2)
        /\ Called("mark_quota_exhausted", "", 0)
        /\ UNCHANGED <<now, disk_ok>>

\* _refresh_header
ReloadQuotaText ==
    \E ok \in disk_ok :
        /\ ledger' = reload_quota_text(ledger, today_pacific(now), ok)
        /\ Called("load_quota", "", 0)
        /\ UNCHANGED <<now, disk_ok>>

\* a read of remaining_quota(), as be_update_videos and the pagination make it
RemainingQuota ==
    /\ Called("remaining_quota", "", remaining_quota(ledger))
    /\ UNCHANGED <<now, ledger, disk_ok>>

\* time passes
Tick ==
    /\ pc = "idle"
    /\ now < MaxNow
    /\ now' = now + 1
    /\ UNCHANGED <<ledgerVars, storeVars, taskVars, siteVars, uiVars, progVars>>

NextLedger ==
    \/ AddQuotaUsage
    \/ MarkQuotaExhausted
    \/ ReloadQuotaText
    \/ RemainingQuota
    \/ Tick

SpecLedger == InitLedger /\ [][NextLedger]_vars

\* the quota file can no longer be relied on to be written (disk full, file
\* locked, directory gone): open(p, "w") in save_quota may raise from now on
DiskBreaks ==
    /\ disk_ok = {TRUE}
    /\ disk_ok' = BOOLEAN
    /\ UNCHANGED <<now, ledger, lastCall, nCalls, storeVars, taskVars, siteVars, uiVars, progVars>>

NextLedgerFaults == NextLedger \/ DiskBreaks

SpecLedgerFaults == InitLedger /\ [][NextLedgerFaults]_vars

(***************************************************************************)
(* The record store and the YouTube Data API.                              *)
(***************************************************************************)
VideoIds == {1, 2, 3}
\* the versions of a video's metadata the API may serve; the ETag follows them
Versions == {1, 2}
\* v.get("fetched_at") of a record that was never fetched
NeverFetched == -1
\* v.get("etag") of a record without one: no If-None-Match header is sent
NoEtag == 0

Rec(id, fetched_at, etag, data) ==
    [video_id |-> id, fetched_at |-> fetched_at, etag |-> etag, data |-> data]

IdsOf(videos) == {videos[k].video_id : k \in 1..Len(videos)}

\* load_cache() / load_removed()
load_cache == videos_json
load_removed == removed_json

\* save_cache(videos): a whole-file overwrite; a failed write is logged
save_cache_WritesNothing(videos, ok) == videos_json

save_cache(videos, ok) == IF ok THEN videos ELSE videos_json

\* yt_get: what a response becomes
yt_get(http) ==
    CASE http \in {"200", "200empty", "304"} -> "return"
      [] http = "429" -> "QuotaExceeded"
      [] http = "403quota" -> "QuotaExceeded"
      [] OTHER -> "RuntimeError"

Failures == {"429", "403quota", "403", "500"}

\* the responses to videos.list for one id; 304 answers an If-None-Match
DetailResponses(etag) ==
    {[http |-> "200", data |-> v] : v \in Versions}
    \cup {[http |-> h, data |-> 0] : h \in Failures \cup {"200empty"}}
    \cup (IF etag # NoEtag THEN {[http |-> "304", data |-> 0]} ELSE {})

ChannelResponses == {"200", "200empty"} \cup Failures

Vid(id) == [kind |-> "youtube#video", videoId |-> id]
\* the pages search.list may serve: an item that is no video, ids that may be
\* cached or removed, a new id, and an id listed twice
PageChoices ==
    {<<[kind |-> "youtube#channel", videoId |-> 3], Vid(1), Vid(3)>>,
     <<Vid(2), Vid(2)>>}

\* the responses to search.list when `served` pages were served before
ListResponses(served) ==
    {[http |-> "200", items |-> p, next |-> n] :
        p \in PageChoices,
        n \in (IF served + 1 < MaxPages THEN BOOLEAN ELSE {FALSE})}
    \cup {[http |-> h, items |-> <<>>, next |-> FALSE] : h \in Failures}

\* fetch_channel_details(): cached by lru_cache once it has returned
fetch_channel_details(L, cached, http, today, ok) ==
    IF cached THEN [ledger |-> L, cached |-> TRUE, exc |-> "", called |-> FALSE]
    ELSE IF yt_get(http) # "return"
    THEN [ledger |-> L, cached |-> FALSE, exc |-> yt_get(http), called |-> TRUE]
    ELSE [ledger |-> add_quota_usage(L, "channels.list", 1, today, ok, ok),
          cached |-> http = "200",
          exc |-> IF http = "200" THEN "" ELSE "RuntimeError",
          called |-> TRUE]

\* fetch_video_details with add_quota_usage after the 304 return of line 361
fetch_video_details_UnchangedIsFree(L, etag, resp, today, ok) ==
    IF yt_get(resp.http) # "return"
    THEN [ledger |-> L, exc |-> yt_get(resp.http), details |-> 0, etag |-> etag]
    ELSE LET C == add_quota_usage(L, "videos.list", 1, today, ok, ok)
         IN  CASE resp.http = "304" ->
                    [ledger |-> L, exc |-> "", details |-> 0, etag |-> etag]
               [] resp.http = "200empty" ->
                    [ledger |-> C, exc |-> "RuntimeError", details |-> 0, etag |-> etag]
               [] OTHER ->
                    [ledger |-> C, exc |-> "", details |-> resp.data, etag |-> resp.data]

\* fetch_video_details(video_id, etag): (details or None, new etag)
fetch_video_details(L, etag, resp, today, ok) ==
    IF yt_get(resp.http) # "return"
    THEN [ledger |-> L, exc |-> yt_get(resp.http), details |-> 0, etag |-> etag]
    ELSE LET C == add_quota_usage(L, "videos.list", 1, today, ok, ok)
         IN  CASE resp.http = "304" ->
                    [ledger |-> C, exc |-> "", details |-> 0, etag |-> etag]
               [] resp.http = "200empty" ->
                    [ledger |-> C, exc |-> "RuntimeError", details |-> 0, etag |-> etag]
               [] OTHER ->
                    [ledger |-> C, exc |-> "", details |-> resp.data, etag |-> resp.data]

\* fetch_list_by_channel without the add_quota_usage of its last lines
fetch_list_by_channel_Uncharged(L, cached, chHttp, resp, today, ok) ==
    LET ch == fetch_channel_details(L, cached, chHttp, today, ok)
    IN  IF ch.exc # ""
        THEN [ledger |-> ch.ledger, cached |-> ch.cached, exc |-> ch.exc,
              items |-> <<>>, next |-> FALSE, called |-> FALSE]
        ELSE IF yt_get(resp.http) # "return"
        THEN [ledger |-> ch.ledger, cached |-> ch.cached, exc |-> yt_get(resp.http),
              items |-> <<>>, next |-> FALSE, called |-> TRUE]
        ELSE [ledger |-> ch.ledger, cached |-> ch.cached, exc |-> "",
              items |-> resp.items, next |-> resp.next, called |-> TRUE]

\* fetch_list_by_channel(page_token, published_after)
fetch_list_by_channel(L, cached, chHttp, resp, today, ok) ==
    LET ch == fetch_channel_details(L, cached, chHttp, today, ok)
    IN  IF ch.exc # ""
        THEN [ledger |-> ch.ledger, cached |-> ch.cached, exc |-> ch.exc,
              items |-> <<>>, next |-> FALSE, called |-> FALSE]
        ELSE IF yt_get(resp.http) # "return"
        THEN [ledger |-> ch.ledger, cached |-> ch.cached, exc |-> yt_get(resp.http),
              items |-> <<>>, next |-> FALSE, called |-> TRUE]
        ELSE [ledger |-> add_quota_usage(ch.ledger, "search.list", 1, today, ok, ok),
              cached |-> ch.cached, exc |-> "",
              items |-> resp.items, next |-> resp.next, called |-> TRUE]

\* the calls of a task that yt_get answered, so that add_quota_usage was
\* reached: the method, and whether the fetch function then returned
Answered(method, http) ==
    IF yt_get(http) = "return"
    THEN <<[method |-> method, returned |-> http # "200empty",
            unchanged |-> http = "304"]>>
    ELSE <<>>

\* fetch_channel_details sends a request only when the lru_cache is empty
ChannelCall(cached, http) == IF cached THEN <<>> ELSE Answered("channels.list", http)

\* an entry of a task's error list
Err(exc, vid, note) == [exc |-> exc, vid |-> vid, note |-> note]
StoppedEarly == Err("", 0, "Stopped early to conserve quota.")

Returned(count, errors) ==
    [status |-> "returned", exc |-> "", count |-> count, errors |-> errors]
Raised(exc) == [status |-> "raised", exc |-> exc, count |-> 0, errors |-> <<>>]

(***************************************************************************)
(* refresh_stale(days, by_ids).                                            *)
(***************************************************************************)
Today == today_pacific(now)

\* needs_refresh without the selection filter of lines 1830-1831
needs_refresh_NoSelectionFilter(v, removed, by_ids, cutoff) ==
    /\ v.video_id \notin removed
    /\ \/ by_ids # {} /\ v.video_id \in by_ids
       \/ v.fetched_at = NeverFetched
       \/ v.fetched_at < cutoff

\* needs_refresh with 'needs = not last_fetch' at line 1833: a selection
\* filters the records and does not force their fetch
needs_refresh_NoOverride(v, removed, by_ids, cutoff) ==
    /\ v.video_id \notin removed
    /\ ~(by_ids # {} /\ v.video_id \notin by_ids)
    /\ \/ v.fetched_at = NeverFetched
       \/ v.fetched_at < cutoff

\* lines 1828-1840: whether record v is fetched in this pass
needs_refresh(v, removed, by_ids, cutoff) ==
    /\ v.video_id \notin removed
    /\ ~(by_ids # {} /\ v.video_id \notin by_ids)
    /\ \/ by_ids # {}
       \/ v.fetched_at = NeverFetched
       \/ v.fetched_at < cutoff

Sent(called) == IF called THEN 1 ELSE 0

StartTask(task) ==
    /\ pc = "idle"
    /\ nPasses < MaxPasses
    /\ nPasses' = nPasses + 1
    /\ UNCHANGED <<first_run, siteVars, uiVars, progVars>>
    /\ UNCHANGED <<now, disk_ok, lastCall, nCalls, removed_json>>

\* lines 1820-1826
RefreshStaleStart(days, by_ids, chHttp) ==
    /\ StartTask("refresh_stale")
    /\ \E ok \in disk_ok :
       LET ch == fetch_channel_details(ledger, channel_cache, chHttp, Today, ok)
       IN  /\ ledger' = ch.ledger
           /\ channel_cache' = ch.cached
           /\ trace' = [NoTrace EXCEPT !.calls = ChannelCall(channel_cache, chHttp)]
           /\ run' = [NoRun EXCEPT !.task = "refresh_stale",
                                   !.videos = load_cache,
                                   !.removed = load_removed,
                                   !.cutoff = now - days * TicksPerDay,
                                   !.by_ids = by_ids,
                                   !.i = 1]
           /\ IF ch.exc = ""
              THEN pc' = "refresh_stale" /\ result' = NoResult
              ELSE pc' = "done" /\ result' = Raised(ch.exc)
    /\ UNCHANGED videos_json

\* lines 1827-1840, a record that is passed over
RefreshStaleSkip ==
    /\ pc = "refresh_stale"
    /\ run.i <= Len(run.videos)
    /\ ~needs_refresh(run.videos[run.i], run.removed, run.by_ids, run.cutoff)
    /\ run' = [run EXCEPT !.i = @ + 1]
    /\ UNCHANGED <<now, ledgerVars, storeVars, channel_cache, pc, trace, result, nPasses, first_run, siteVars, uiVars, progVars>>

\* Refreshed without the fetched_at stamp of line 1856
Refreshed_KeepsFetchedAt(v, r, t) ==
    IF r.details # 0 THEN [v EXCEPT !.data = r.details, !.etag = r.etag] ELSE v

\* Refreshed without the `if details:` of line 1844
Refreshed_NoDetailsCheck(v, r, t) ==
    [v EXCEPT !.data = r.details, !.etag = r.etag, !.fetched_at = t]

\* lines 1843-1858: what a fetch that returned does to the record
Refreshed(v, r, t) ==
    [(IF r.details # 0 THEN [v EXCEPT !.data = r.details, !.etag = r.etag] ELSE v)
        EXCEPT !.fetched_at = t]

\* a handler that catches QuotaExceeded only
RefreshCatches_QuotaOnly(exc) == exc = "QuotaExceeded"

\* the handler of line 1859, applied to what fetch_video_details raised
RefreshCatches(exc) == exc # ""

\* lines 1841-1860, a record that is fetched
RefreshStaleFetch ==
    /\ pc = "refresh_stale"
    /\ run.i <= Len(run.videos)
    /\ needs_refresh(run.videos[run.i], run.removed, run.by_ids, run.cutoff)
    /\ \E ok \in disk_ok, resp \in DetailResponses(run.videos[run.i].etag) :
       LET v == run.videos[run.i]
           r == fetch_video_details(ledger, v.etag, resp, Today, ok)
       IN  /\ ledger' = r.ledger
           /\ trace' = [trace EXCEPT !.fetched = Append(@, v.video_id),
                                     !.calls = @ \o Answered("videos.list", resp.http)]
           /\ IF r.exc = ""
              THEN /\ run' = [run EXCEPT !.videos[run.i] = Refreshed(v, r, now),
                                         !.count = @ + 1,
                                         !.i = @ + 1]
                   /\ UNCHANGED <<pc, result, videos_json>>
              ELSE IF RefreshCatches(r.exc)
              THEN /\ run' = [run EXCEPT !.errors = Append(@, Err(r.exc, v.video_id, "")),
                                         !.i = @ + 1]
                   /\ UNCHANGED <<pc, result, videos_json>>
              ELSE /\ pc' = "done"
                   /\ result' = Raised(r.exc)
                   /\ UNCHANGED <<run, videos_json>>
    /\ UNCHANGED <<now, disk_ok, lastCall, nCalls, removed_json, channel_cache, nPasses, first_run, siteVars, uiVars, progVars>>

\* lines 1861-1862
RefreshStaleFinish ==
    /\ pc = "refresh_stale"
    /\ run.i > Len(run.videos)
    /\ \E ok \in disk_ok : videos_json' = save_cache(run.videos, ok)
    /\ run' = [run EXCEPT !.saves = @ + 1]
    /\ result' = Returned(run.count, run.errors)
    /\ pc' = "done"
    /\ UNCHANGED <<now, ledgerVars, removed_json, channel_cache, trace, nPasses, first_run, siteVars, uiVars, progVars>>

\* the ids in a sequence of ids, and the ids an error list names
Range(seq) == {seq[k] : k \in 1..Len(seq)}
FailedIds(errors) == {errors[k].vid : k \in 1..Len(errors)}

\* refresh_stale is called again with the same arguments as soon as it has
\* returned (lines 1820-1826 once more): the clock has not moved and the
\* channel is in the lru_cache
RefreshStaleAgain ==
    /\ pc = "done"
    /\ run.task = "refresh_stale"
    /\ result.status = "returned"
    /\ ~first_run.done
    /\ first_run' = [done |-> TRUE,
                     refreshed |-> Range(trace.fetched) \ FailedIds(run.errors),
                     failed |-> FailedIds(run.errors)]
    /\ \E ok \in disk_ok :
       LET ch == fetch_channel_details(ledger, channel_cache, "200", Today, ok)
       IN  /\ ledger' = ch.ledger
           /\ channel_cache' = ch.cached
    /\ trace' = NoTrace
    /\ run' = [NoRun EXCEPT !.task = "refresh_stale",
                            !.videos = load_cache,
                            !.removed = load_removed,
                            !.cutoff = run.cutoff,
                            !.by_ids = run.by_ids,
                            !.i = 1]
    /\ pc' = "refresh_stale"
    /\ result' = NoResult
    /\ UNCHANGED <<now, disk_ok, lastCall, nCalls, storeVars, nPasses, siteVars, uiVars, progVars>>

(***************************************************************************)
(* fetch_latest(days) and fetch_all(max_pages).                            *)
(***************************************************************************)
Discovering == pc \in {"fetch_latest", "fetch_all"}

\* lines 1864-1879
FetchLatestStart(chHttp, resp) ==
    /\ StartTask("fetch_latest")
    /\ \E ok \in disk_ok :
       LET ch == fetch_channel_details(ledger, channel_cache, chHttp, Today, ok)
           ls == fetch_list_by_channel(ch.ledger, ch.cached, chHttp, resp, Today, ok)
           locals == [NoRun EXCEPT !.task = "fetch_latest",
                                   !.videos = load_cache,
                                   !.removed = load_removed]
       IN  IF ch.exc # ""
           THEN /\ ledger' = ch.ledger
                /\ channel_cache' = ch.cached
                /\ trace' = [NoTrace EXCEPT !.calls = ChannelCall(channel_cache, chHttp)]
                /\ run' = locals
                /\ pc' = "done"
                /\ result' = IF ch.exc = "QuotaExceeded"
                             THEN Returned(0, <<Err(ch.exc, 0, "(channels.list)")>>)
                             ELSE Raised(ch.exc)
           ELSE /\ ledger' = ls.ledger
                /\ channel_cache' = ls.cached
                /\ trace' = [NoTrace EXCEPT !.listed = 1,
                                            !.served = IF ls.exc = "" THEN 1 ELSE 0,
                                            !.calls = ChannelCall(channel_cache, chHttp)
                                                      \o Answered("search.list", resp.http)]
                /\ run' = [locals EXCEPT !.items = ls.items, !.next_page = ls.next]
                /\ pc' = IF ls.exc = "" THEN "fetch_latest" ELSE "done"
                /\ result' = CASE ls.exc = "" -> NoResult
                               [] ls.exc = "QuotaExceeded" ->
                                    Returned(0, <<Err(ls.exc, 0, "(search.list)")>>)
                               [] OTHER -> Raised(ls.exc)
    /\ UNCHANGED videos_json

\* lines 1938-1953
FetchAllStart(max_pages, chHttp, resp) ==
    /\ StartTask("fetch_all")
    /\ \E ok \in disk_ok :
       LET ls == fetch_list_by_channel(ledger, channel_cache, chHttp, resp, Today, ok)
           ch == fetch_channel_details(ls.ledger, ls.cached, chHttp, Today, ok)
           locals == [NoRun EXCEPT !.task = "fetch_all",
                                   !.videos = load_cache,
                                   !.removed = load_removed,
                                   !.max_pages = max_pages]
       IN  IF ls.exc # ""
           THEN /\ ledger' = ls.ledger
                /\ channel_cache' = ls.cached
                /\ trace' = [NoTrace EXCEPT !.listed = Sent(ls.called),
                                            !.calls = ChannelCall(channel_cache, chHttp)
                                                      \o (IF ls.called
                                                          THEN Answered("search.list", resp.http)
                                                          ELSE <<>>)]
                /\ run' = locals
                /\ pc' = "done"
                /\ result' = IF ls.exc = "QuotaExceeded"
                             THEN Returned(0, <<Err(ls.exc, 0, "(search.list)")>>)
                             ELSE Raised(ls.exc)
           ELSE /\ ledger' = ch.ledger
                /\ channel_cache' = ch.cached
                /\ trace' = [NoTrace EXCEPT !.listed = 1, !.served = 1,
                                            !.calls = ChannelCall(channel_cache, chHttp)
                                                      \o Answered("search.list", resp.http)]
                /\ run' = [locals EXCEPT !.items = ls.items, !.next_page = ls.next,
                                         !.pages = 1]
                /\ pc' = IF ch.exc = "" THEN "fetch_all" ELSE "done"
                /\ result' = CASE ch.exc = "" -> NoResult
                               [] ch.exc = "QuotaExceeded" ->
                                    Returned(0, <<Err(ch.exc, 0, "(channels.list)")>>)
                               [] OTHER -> Raised(ch.exc)
    /\ UNCHANGED videos_json

\* item_skipped without the removed check of lines 1886 / 1960
item_skipped_NoRemovedCheck(item, videos, removed) ==
    \/ item.kind # "youtube#video"
    \/ item.videoId \in IdsOf(videos)

\* item_skipped without the ids_in_cache check of lines 1886 / 1960
item_skipped_NoCacheCheck(item, videos, removed) ==
    \/ item.kind # "youtube#video"
    \/ item.videoId \in removed

\* lines 1883-1887 / 1957-1961: whether a listed item is passed over
item_skipped(item, videos, removed) ==
    \/ item.kind # "youtube#video"
    \/ item.videoId \in IdsOf(videos)
    \/ item.videoId \in removed

DiscoverSkip ==
    /\ Discovering
    /\ run.items # <<>>
    /\ item_skipped(Head(run.items), run.videos, run.removed)
    /\ run' = [run EXCEPT !.items = Tail(@)]
    /\ UNCHANGED <<now, ledgerVars, storeVars, channel_cache, pc, trace, result, nPasses, first_run, siteVars, uiVars, progVars>>

\* lines 1888-1921 / 1962-1995: a listed id that is new
DiscoverFetch ==
    /\ Discovering
    /\ run.items # <<>>
    /\ ~item_skipped(Head(run.items), run.videos, run.removed)
    /\ \E ok \in disk_ok, okCache \in disk_ok, resp \in DetailResponses(NoEtag) :
       LET vid == Head(run.items).videoId
           r == fetch_video_details(ledger, NoEtag, resp, Today, ok)
       IN  /\ ledger' = r.ledger
           /\ trace' = [trace EXCEPT !.fetched = Append(@, vid),
                                     !.calls = @ \o Answered("videos.list", resp.http)]
           /\ CASE r.exc = "" /\ r.details # 0 ->
                     /\ run' = [run EXCEPT
                                  !.videos = Append(@, Rec(vid, now, r.etag, r.details)),
                                  !.count = @ + 1,
                                  !.items = Tail(@)]
                     /\ UNCHANGED <<pc, result, videos_json>>
                [] r.exc = "" /\ r.details = 0 ->
                     /\ run' = [run EXCEPT !.items = Tail(@)]
                     /\ UNCHANGED <<pc, result, videos_json>>
                [] r.exc = "QuotaExceeded" ->
                     /\ run' = [run EXCEPT
                                  !.errors = Append(@, Err(r.exc, vid, "while fetching video")),
                                  !.saves = @ + 1]
                     /\ videos_json' = save_cache(run.videos, okCache)
                     /\ result' = Returned(run.count, run'.errors)
                     /\ pc' = "done"
                [] OTHER ->
                     /\ run' = [run EXCEPT !.errors = Append(@, Err(r.exc, vid, "")),
                                           !.items = Tail(@)]
                     /\ UNCHANGED <<pc, result, videos_json>>
    /\ UNCHANGED <<now, disk_ok, lastCall, nCalls, removed_json, channel_cache, nPasses, first_run, siteVars, uiVars, progVars>>

\* fetch_all, line 1997: max_pages pages were read
MaxPagesReached ==
    pc = "fetch_all" /\ run.max_pages # 0 /\ run.pages >= run.max_pages

\* the budget check without its threshold, and with half the listing cost
BudgetStop_Never(L) == remaining_quota(L) < 0
BudgetStop_HalfCost(L) == 2 * remaining_quota(L) < API_COSTS("search.list")

\* lines 1926 / 2002: the budget check made before the next page is requested
BudgetStop(L) == remaining_quota(L) < API_COSTS("search.list")

\* lines 1923-1928, 1935-1936 / 1997-2004, 2011-2012: the loop ends without
\* another listing call
DiscoverEnd ==
    /\ Discovering
    /\ run.items = <<>>
    /\ MaxPagesReached \/ ~run.next_page \/ BudgetStop(ledger)
    /\ run' = IF ~MaxPagesReached /\ run.next_page
              THEN [run EXCEPT !.errors = Append(@, StoppedEarly), !.saves = @ + 1]
              ELSE [run EXCEPT !.saves = @ + 1]
    /\ \E ok \in disk_ok : videos_json' = save_cache(run.videos, ok)
    /\ result' = Returned(run.count, run'.errors)
    /\ pc' = "done"
    /\ UNCHANGED <<now, ledgerVars, removed_json, channel_cache, trace, nPasses, first_run, siteVars, uiVars, progVars>>

\* lines 1929-1933 / 2005-2009: the next page is requested from a source
\* that answers with one of `responses`
DiscoverNextPageOf(responses) ==
    /\ Discovering
    /\ run.items = <<>>
    /\ ~MaxPagesReached
    /\ run.next_page
    /\ ~BudgetStop(ledger)
    /\ \E ok \in disk_ok, okCache \in disk_ok, resp \in responses :
       LET ls == fetch_list_by_channel(ledger, channel_cache, "200", resp, Today, ok)
       IN  /\ ledger' = ls.ledger
           /\ trace' = [trace EXCEPT !.listed = @ + 1,
                                     !.served = IF ls.exc = "" THEN @ + 1 ELSE @,
                                     !.calls = @ \o ChannelCall(channel_cache, "200")
                                                 \o Answered("search.list", resp.http)]
           /\ CASE ls.exc = "" ->
                     /\ run' = [run EXCEPT !.items = ls.items, !.next_page = ls.next,
                                           !.pages = IF pc = "fetch_all" THEN @ + 1 ELSE @]
                     /\ UNCHANGED <<pc, result, videos_json>>
                [] ls.exc = "QuotaExceeded" ->
                     /\ run' = [run EXCEPT
                                  !.errors = Append(@, Err(ls.exc, 0, "during pagination")),
                                  !.saves = @ + 1]
                     /\ videos_json' = save_cache(run.videos, okCache)
                     /\ result' = Returned(run.count, run'.errors)
                     /\ pc' = "done"
                [] OTHER ->
                     /\ pc' = "done"
                     /\ result' = Raised(ls.exc)
                     /\ UNCHANGED <<run, videos_json>>
    /\ UNCHANGED <<now, disk_ok, lastCall, nCalls, removed_json, channel_cache, nPasses, first_run, siteVars, uiVars, progVars>>

DiscoverNextPage == DiscoverNextPageOf(ListResponses(trace.served))

\* _do_refresh_stale, lines 4887-4888: the only caller of a pass that
\* catches QuotaExceeded; refresh by ids, fetch_latest and fetch_all are
\* called without a handler
CallerMarksExhausted ==
    /\ run.task = "refresh_stale"
    /\ run.by_ids = {}
    /\ result.status = "raised"
    /\ result.exc = "QuotaExceeded"

\* the task's result is handed to its caller, which logs it
TaskReturns ==
    /\ pc = "done"
    /\ pc' = "idle"
    /\ run' = NoRun
    /\ trace' = NoTrace
    /\ result' = NoResult
    /\ first_run' = NoFirstRun
    /\ IF CallerMarksExhausted
       THEN \E ok \in disk_ok : ledger' = mark_quota_exhausted(ledger, Today, ok, ok)
       ELSE ledger' = ledger
    /\ UNCHANGED <<now, disk_ok, lastCall, nCalls, storeVars, channel_cache, nPasses, siteVars, uiVars, progVars>>

(***************************************************************************)
(* update_site(update_index, update_videos, dry_run, force_rebuild).       *)
(***************************************************************************)
\* slugify(title): the videos 2 and 3 have the same title
TitleSlug(id) == IF id = 1 THEN 1 ELSE 2

\* output_basename with OUTPUT_NAMING = "id"
output_basename_ById(v) == [kind |-> "id", key |-> v.video_id]

\* output_basename(v), OUTPUT_NAMING = "slug": a record without details has
\* neither slug nor title and is named by its id
output_basename(v) ==
    IF v.data # 0 THEN [kind |-> "slug", key |-> TitleSlug(v.video_id)]
    ELSE [kind |-> "id", key |-> v.video_id]

\* str.lower() of a file name: a slug is lowercase already
lower(name) == IF name.kind = "id" THEN [name EXCEPT !.kind = "lowered id"] ELSE name

\* iso_date(): the date of the clock
iso_date(t) == t \div TicksPerDay

\* what the templates show of a record
Entry(v) == [name |-> output_basename(v), video_id |-> v.video_id, data |-> v.data]

\* build_related_list(all_videos, current, k=10): with at most ten videos
\* every video is listed, the current one included
build_related_list(videos, v) == {Entry(videos[k]) : k \in 1..Len(videos)}

\* render_video_page(v, out_dir): a record without dates gets the instant of
\* the render as its upload date (_iso_with_tz)
render_video_page(v, videos, instant) ==
    [absent |-> FALSE, page |-> Entry(v), related |-> build_related_list(videos, v),
     upload_date |-> IF v.data = 0 THEN instant ELSE 0, rebuild |-> 0]

\* render_index(videos, out_path)
render_index(videos) ==
    [absent |-> FALSE, items |-> [k \in 1..Len(videos) |-> Entry(videos[k])]]

\* regenerate_sitemap(videos)
regenerate_sitemap(videos, t) ==
    [absent |-> FALSE, lastmod |-> iso_date(t),
     urls |-> [k \in 1..Len(videos) |->
                 [name |-> output_basename(videos[k]),
                  lastmod |-> IF videos[k].data # 0 THEN 0 ELSE iso_date(t)]]]

\* the entries of changed_files
Changed(what, name) == [what |-> what, name |-> name]
NoName == [kind |-> "", key |-> 0]

\* a set of file names in the order os.listdir or a set iteration gives them
RECURSIVE Listed(_)
Listed(names) ==
    IF names = {} THEN <<>>
    ELSE LET n == CHOOSE x \in names : TRUE IN <<n>> \o Listed(names \ {n})

Entries(what, names) == [k \in 1..Len(Listed(names)) |-> Changed(what, Listed(names)[k])]

\* line 2515: the records that are rendered
live_videos(videos_all, removed_ids) ==
    SelectSeq(videos_all, LAMBDA v : v.video_id \notin removed_ids)

\* lines 2559-2561 without the rebuild marker
force_touch_NoMarker(html, force_rebuild, instant) == html

\* lines 2559-2561: force touch without changing template logic
force_touch(html, force_rebuild, instant) ==
    IF force_rebuild THEN [html EXCEPT !.rebuild = instant] ELSE html

\* pages written to VIDEOS_DIR whatever the mode
out_dir_AlwaysLive(dry_run) == "VIDEOS_DIR"

\* line 2556: out_dir = PREVIEW_DIR if dry_run else VIDEOS_DIR
out_dir(dry_run) == IF dry_run THEN "PREVIEW_DIR" ELSE "VIDEOS_DIR"

\* the baseline read from out_path in a dry run too: the page an earlier dry
\* run left in PREVIEW_DIR
page_baseline_OfOutPath(dry_run, dir, preview_dir, name) ==
    IF dry_run THEN preview_dir[name] ELSE dir[name]

\* lines 2563-2565: the text a rendered page is compared with is the file in
\* VIDEOS_DIR, in a dry run (cmp_path) and otherwise (out_path)
page_baseline(dry_run, dir, preview_dir, name) == dir[name]

\* lines 2553-2582: the pages are rendered, compared with the live file and
\* written, one record after the other
RECURSIVE render_videos(_, _, _, _)
render_videos(videos, k, acc, f) ==
    IF k > Len(videos) THEN acc
    ELSE LET v == videos[k]
             name == output_basename(v)
             html == force_touch(render_video_page(v, videos, f.instant),
                                 f.force_rebuild, f.instant)
             baseline == page_baseline(f.dry_run, acc.dir, acc.preview, name)
             differs == baseline # html
         IN  render_videos(videos, k + 1,
                [dir |-> IF out_dir(f.dry_run) = "VIDEOS_DIR"
                         THEN [acc.dir EXCEPT ![name] = html] ELSE acc.dir,
                 preview |-> IF out_dir(f.dry_run) = "PREVIEW_DIR"
                             THEN [acc.preview EXCEPT ![name] = html] ELSE acc.preview,
                 changed_files |-> IF differs
                                   THEN Append(acc.changed_files, Changed("page", name))
                                   ELSE acc.changed_files,
                 urls |-> IF differs THEN Append(acc.urls, name) ELSE acc.urls],
                f)

\* id_to_slug.get(i) or i, for a removed id (lines 2522-2523)
removed_slug(i, videos_all) ==
    LET at == {k \in 1..Len(videos_all) : videos_all[k].video_id = i}
    IN  IF at = {} THEN lower([kind |-> "id", key |-> i])
        ELSE lower(output_basename(videos_all[CHOOSE k \in at : \A j \in at : j <= k]))

\* prune_orphan_pages(removed_ids, videos_all): the files it deletes
prune_orphan_pages(dir, removed_ids, videos_all) ==
    {n \in {removed_slug(i, videos_all) : i \in removed_ids} : dir[n] # NoText}

\* _prune_changed_slugs that deletes nothing
prune_changed_slugs_DeletesNothing(dir, videos_now) == {}

\* _prune_changed_slugs(videos_now): the files it deletes
prune_changed_slugs(dir, videos_now) ==
    {n \in Names : dir[n] # NoText
                   /\ n \notin {output_basename(videos_now[k]) : k \in 1..Len(videos_now)}}

Deleted(dir, names) == [n \in Names |-> IF n \in names THEN NoText ELSE dir[n]]

\* lines 2584-2597
prune(acc, removed_ids, videos_all, videos, f) ==
    IF f.dry_run
    THEN [acc EXCEPT !.changed_files =
              @ \o Entries("would delete", prune_changed_slugs(acc.dir, videos))]
    ELSE LET orphans == prune_orphan_pages(acc.dir, removed_ids, videos_all)
             dir1 == Deleted(acc.dir, orphans)
             renamed == prune_changed_slugs(dir1, videos)
         IN  [acc EXCEPT !.dir = Deleted(dir1, renamed),
                         !.changed_files = @ \o Entries("deleted", orphans)
                                             \o Entries("deleted", renamed)]

\* update_site: the live tree it leaves and what it returns
update_site(f, videos_all, removed_ids, dir, index, sitemap, t, previewed) ==
    LET videos == live_videos(videos_all, removed_ids)
        start == [dir |-> dir, preview |-> previewed.dir, changed_files |-> <<>>,
                  urls |-> <<>>]
        rendered == IF f.update_videos /\ videos # <<>>
                    THEN render_videos(videos, 1, start, f) ELSE start
        pruned == prune(rendered, removed_ids, videos_all, videos, f)
        idx == render_index(videos)
        idx_differs == f.update_index /\ index # idx
        sm == regenerate_sitemap(videos, t)
        sm_differs == sitemap # sm
    IN  [dir |-> pruned.dir,
         index |-> IF f.update_index /\ ~f.dry_run THEN idx ELSE index,
         sitemap |-> IF f.dry_run THEN sitemap ELSE sm,
         preview |-> [dir |-> pruned.preview,
                      index |-> IF f.update_index /\ f.dry_run THEN idx
                                ELSE previewed.index,
                      sitemap |-> IF f.dry_run THEN sm ELSE previewed.sitemap],
         changed_files |-> pruned.changed_files
                            \o (IF idx_differs THEN <<Changed("index", NoName)>> ELSE <<>>)
                            \o (IF sm_differs THEN <<Changed("sitemap", NoName)>> ELSE <<>>),
         urls |-> pruned.urls \o (IF idx_differs THEN <<NoName>> ELSE <<>>)]

\* a line of deploy's out_lines: the step it is about and how it went
Line(step, ok) == [step |-> step, ok |-> ok]

\* update_site calling deploy whatever the mode
deploys_Always(dry_run) == TRUE

\* line 2625: `if not dry_run:` guards the call of deploy
deploys(dry_run) == ~dry_run

\* deploy(commit_msg, ping_urls) as update_site calls it (lines 2652-2655):
\* the calls it makes to git and to the notification functions, in order,
\* the urls it hands to indexnow_submit, and deploy_output as a list of lines
deploy_stage(git, ping_urls) ==
    LET fails(step) == step \in git.failing
        said(step) == <<Line(step, ~fails(step))>>
    IN  IF fails("open")
        THEN [git |-> git, calls |-> <<"open">>, urls |-> <<>>,
              output |-> <<Line("open", FALSE)>>]
        ELSE IF fails("status")
        THEN [git |-> git, calls |-> <<"open", "add", "status">>, urls |-> <<>>,
              output |-> <<Line("deploy", FALSE)>>]
        ELSE [git |-> git,
              calls |-> <<"open", "add", "status">>
                        \o (IF git.dirty THEN <<"commit">> ELSE <<>>)
                        \o (IF git.origin THEN <<"pull", "push">> ELSE <<>>)
                        \o <<"indexnow_submit", "google_sitemap_ping">>,
              urls |-> ping_urls,
              output |-> (IF fails("add") THEN said("add") ELSE <<>>)
                         \o (IF git.dirty THEN said("commit")
                             ELSE <<Line("nothing to commit", TRUE)>>)
                         \o (IF git.origin THEN said("pull") \o said("push")
                             ELSE <<Line("no remote", TRUE)>>)
                         \o (IF ping_urls # <<>> THEN <<Line("indexnow", TRUE)>> ELSE <<>>)
                         \o <<Line("google ping", TRUE)>>]

Flags(update_index, update_videos, dry_run, force_rebuild) ==
    [update_index |-> update_index, update_videos |-> update_videos,
     dry_run |-> dry_run, force_rebuild |-> force_rebuild, at |-> now,
     instant |-> nUpdates + 1]

\* update_site runs from start to end; every render has its own instant
UpdateSite(update_index, update_videos, dry_run, force_rebuild, git) ==
    /\ pc = "idle"
    /\ nUpdates < MaxUpdates
    /\ \E u \in {update_site(Flags(update_index, update_videos, dry_run, force_rebuild),
                             load_cache, load_removed, videos_dir, index_html,
                             sitemap_xml, now, preview)} :
          /\ preview' = u.preview
          /\ deployed' = IF deploys(dry_run) THEN deploy_stage(git, u.urls) ELSE NoDeploy
          /\ videos_dir' = u.dir
          /\ index_html' = u.index
          /\ sitemap_xml' = u.sitemap
          /\ last_update' = [changed_files |-> u.changed_files, urls |-> u.urls,
                             flags |-> Flags(update_index, update_videos, dry_run,
                                             force_rebuild),
                             before |-> last_update.flags]
    /\ nUpdates' = nUpdates + 1
    /\ UNCHANGED <<now, ledgerVars, storeVars, taskVars, progVars, uiVars>>

(***************************************************************************)
(* The tasks' specification.  The header has loaded the quota file; the    *)
(* store and the removed registry are what earlier sessions left.          *)
(***************************************************************************)
\* a record that was listed and never fetched, and one fetched at tick 0
Unfetched(id) == Rec(id, NeverFetched, NoEtag, 0)
FetchedAtStart(id) == Rec(id, 0, 1, 1)

InitStores ==
    {<<Unfetched(1)>>,
     <<FetchedAtStart(1), Unfetched(2)>>,
     <<FetchedAtStart(1), FetchedAtStart(2)>>}

InitRemoved == {{}, {2}}

\* the spends earlier tasks of the day left: videos.list calls, search.list calls
InitSpends == {<<0, 0>>, <<99, 97>>, <<99, 99>>}

DaysChoices == {0, 1}
ByIdsChoices == {{}, {2}}
MaxPagesChoices == {0, 1}

\* the ledger once the header has loaded a quota file of today
LoadedLedger(t, sp) ==
    load_quota(ImportedLedger(t, FileOf(today_pacific(t), sp[1], sp[2])),
               today_pacific(t), TRUE)

InitTasks ==
    /\ now = 0
    /\ disk_ok = {TRUE}
    /\ lastCall = [op |-> "none", method |-> "", ret |-> 0, today |-> 0,
                   date_before |-> 0, units_before |-> 0]
    /\ nCalls = 0
    /\ removed_json \in InitRemoved
    /\ channel_cache = FALSE
    /\ pc = "idle"
    /\ run = NoRun
    /\ trace = NoTrace
    /\ result = NoResult
    /\ nPasses = 0
    /\ first_run = NoFirstRun
    /\ NoProgress

InitSync ==
    /\ InitTasks
    /\ NoSite
    /\ \E sp \in InitSpends : ledger = LoadedLedger(0, sp)
    /\ videos_json \in InitStores

NextSync ==
    \/ \E days \in DaysChoices, by_ids \in ByIdsChoices, chHttp \in ChannelResponses :
          RefreshStaleStart(days, by_ids, chHttp)
    \/ RefreshStaleSkip
    \/ RefreshStaleFetch
    \/ RefreshStaleFinish
    \/ \E chHttp \in ChannelResponses, resp \in ListResponses(0) :
          FetchLatestStart(chHttp, resp)
    \/ \E max_pages \in MaxPagesChoices, chHttp \in ChannelResponses,
          resp \in ListResponses(0) :
          FetchAllStart(max_pages, chHttp, resp)
    \/ DiscoverSkip
    \/ DiscoverFetch
    \/ DiscoverEnd
    \/ DiscoverNextPage
    \/ TaskReturns
    \/ Tick

SpecSync == InitSync /\ [][NextSync]_vars

(***************************************************************************)
(* Discovery from a channel whose listing never ends: every page carries a *)
(* nextPageToken.  Checked under SpecPaging, in which a pass that has      *)
(* started keeps running.                                                  *)
(***************************************************************************)
\* the pages of the endless listing: a cached id, or a new one
EndlessPages == {<<Vid(1)>>, <<Vid(3)>>}

EndlessResponses ==
    {[http |-> "200", items |-> p, next |-> TRUE] : p \in EndlessPages}
    \cup {[http |-> h, items |-> <<>>, next |-> FALSE] : h \in Failures}

\* the day's spends before the pass: at most four listing calls are left
PagingSpends == {<<99, 95>>, <<99, 97>>, <<0, 99>>}

InitPaging ==
    /\ InitTasks
    /\ NoSite
    /\ \E sp \in PagingSpends : ledger = LoadedLedger(0, sp)
    /\ videos_json \in InitStores

\* time passes within the Pacific day the spends were made on
TickWithinDay ==
    /\ today_pacific(now + 1) = Today
    /\ Tick

\* the next page of the endless listing; the model follows MaxListings calls
PagingNextPage ==
    /\ trace.listed < MaxListings
    /\ DiscoverNextPageOf(EndlessResponses)

\* the steps of a pass that has started
PassStep ==
    \/ DiscoverSkip
    \/ DiscoverFetch
    \/ DiscoverEnd
    \/ PagingNextPage

NextPaging ==
    \/ \E chHttp \in ChannelResponses, resp \in EndlessResponses :
          FetchLatestStart(chHttp, resp)
    \/ \E max_pages \in MaxPagesChoices, chHttp \in ChannelResponses,
          resp \in EndlessResponses :
          FetchAllStart(max_pages, chHttp, resp)
    \/ PassStep
    \/ TaskReturns
    \/ TickWithinDay

SpecPaging == InitPaging /\ [][NextPaging]_vars /\ WF_vars(PassStep)

(***************************************************************************)
(* A refresh pass and its immediate repetition.                            *)
(***************************************************************************)
NextRepeat ==
    \/ \E days \in DaysChoices, by_ids \in ByIdsChoices, chHttp \in ChannelResponses :
          RefreshStaleStart(days, by_ids, chHttp)
    \/ RefreshStaleSkip
    \/ RefreshStaleFetch
    \/ RefreshStaleFinish
    \/ RefreshStaleAgain
    \/ TaskReturns
    \/ Tick

SpecRepeat == InitSync /\ [][NextRepeat]_vars

(***************************************************************************)
(* Publishing: update_site runs over a store that does not change.         *)
(***************************************************************************)
PublishStores ==
    {<<Unfetched(1)>>,
     <<FetchedAtStart(1), Unfetched(2)>>,
     <<FetchedAtStart(1), FetchedAtStart(2)>>,
     <<FetchedAtStart(2), FetchedAtStart(3)>>}

\* the live tree a full update_site left at tick 0, before any id was removed
PublishedBefore(videos_all) ==
    update_site([update_index |-> TRUE, update_videos |-> TRUE, dry_run |-> FALSE,
                 force_rebuild |-> FALSE, at |-> 0, instant |-> 0],
                videos_all, {}, EmptyDir, NoText, NoText, 0, NoPreview)

InitPublish ==
    /\ InitTasks
    /\ ledger = LoadedLedger(0, <<0, 0>>)
    /\ videos_json \in PublishStores
    /\ \/ NoSite
       \/ /\ videos_dir = PublishedBefore(videos_json).dir
          /\ index_html = PublishedBefore(videos_json).index
          /\ sitemap_xml = PublishedBefore(videos_json).sitemap
          /\ last_update = NoUpdate
          /\ nUpdates = 0
          /\ preview = NoPreview
          /\ deployed = NoDeploy

NextPublish ==
    \/ \E update_index, update_videos, dry_run, force_rebuild \in BOOLEAN :
          UpdateSite(update_index, update_videos, dry_run, force_rebuild, GitWorks)
    \/ Tick

SpecPublish == InitPublish /\ [][NextPublish]_vars

(***************************************************************************)
(* update_site killed on its way (power cut, kill -9): what it had written *)
(* stays, nothing is returned.  Checked under SpecCrash.                   *)
(***************************************************************************)
\* the pages of the first j live records are written (lines 2553-2567)
RECURSIVE render_upto(_, _, _, _)
render_upto(videos, j, dir, f) ==
    IF j = 0 THEN dir
    ELSE [render_upto(videos, j - 1, dir, f) EXCEPT
            ![output_basename(videos[j])] =
                force_touch(render_video_page(videos[j], videos, f.instant),
                            f.force_rebuild, f.instant)]

\* where a run can be killed once it has written something: after the page
\* of the j-th record, after the pruning, after index.html
CrashPoints(f, n) ==
    (IF f.update_videos THEN {[stage |-> "pages", j |-> j] : j \in 1..n} ELSE {})
    \cup {[stage |-> "pruned", j |-> n]}
    \cup (IF f.update_index THEN {[stage |-> "index", j |-> n]} ELSE {})

\* the live tree a run killed at `point` leaves
update_site_killed(f, videos_all, removed_ids, dir, index, sitemap, t, point) ==
    LET videos == live_videos(videos_all, removed_ids)
        whole == update_site(f, videos_all, removed_ids, dir, index, sitemap, t, NoPreview)
    IN  CASE point.stage = "pages" ->
               [dir |-> render_upto(videos, point.j, dir, f), index |-> index,
                sitemap |-> sitemap]
          [] point.stage = "pruned" ->
               [dir |-> whole.dir, index |-> index, sitemap |-> sitemap]
          [] OTHER ->
               [dir |-> whole.dir, index |-> whole.index, sitemap |-> sitemap]

\* update_site without dry_run is killed at one of its crash points
UpdateSiteKilled(update_index, update_videos) ==
    /\ pc = "idle"
    /\ nUpdates < MaxUpdates
    /\ ~interrupted.pending
    /\ LET f == Flags(update_index, update_videos, FALSE, FALSE)
           videos == live_videos(load_cache, load_removed)
       IN  \E point \in CrashPoints(f, Len(videos)) :
             \E k \in {update_site_killed(f, load_cache, load_removed, videos_dir,
                                          index_html, sitemap_xml, now, point)} :
                /\ k.dir # videos_dir \/ k.index # index_html
                /\ videos_dir' = k.dir
                /\ index_html' = k.index
                /\ sitemap_xml' = k.sitemap
                /\ interrupted' =
                      [pending |-> TRUE, run |-> nUpdates + 1, flags |-> f,
                       written |-> IF update_videos
                                   THEN {output_basename(videos[j]) : j \in 1..point.j}
                                   ELSE {},
                       index |-> point.stage = "index",
                       before |-> [dir |-> videos_dir, index |-> index_html,
                                   sitemap |-> sitemap_xml]]
    /\ nUpdates' = nUpdates + 1
    /\ UNCHANGED <<now, ledgerVars, storeVars, taskVars, last_update, preview, deployed,
                   progVars, workers>>

NextCrash ==
    \/ \E update_index, update_videos \in BOOLEAN :
          UpdateSiteKilled(update_index, update_videos)
    \/ \E update_index, update_videos \in BOOLEAN :
          UpdateSite(update_index, update_videos, FALSE, FALSE, GitWorks)
    \/ Tick

SpecCrash == InitPublish /\ [][NextCrash]_vars

(***************************************************************************)
(* The cache manager's "Remove & Purge" (_task_remove), with update_site   *)
(* runs in between.                                                        *)
(***************************************************************************)
\* the ids typed into the remove box (with an empty box _task_remove
\* returns at once): one that may be in the store, several, all
RemoveChoices == {{2}, {1, 3}, {1, 2, 3}}

\* the page _task_remove purges for an id: the record's output_basename, or
\* the id itself when the store has no such record (lines 4817-4822)
purged_page(vid, vids) ==
    LET at == {k \in 1..Len(vids) : vids[k].video_id = vid}
    IN  IF at = {} THEN [kind |-> "id", key |-> vid]
        ELSE output_basename(vids[CHOOSE k \in at : \A j \in at : k <= j])

\* _task_remove(ids), lines 4800-4830
TaskRemove(ids) ==
    /\ pc = "idle"
    /\ ids # {}
    /\ LET vids == load_cache
           kept == SelectSeq(vids, LAMBDA v : v.video_id \notin ids)
       IN  /\ \E ok \in disk_ok : videos_json' = save_cache(kept, ok)
           /\ removed_json' = load_removed \cup (IdsOf(vids) \cap ids)
           /\ videos_dir' = Deleted(videos_dir, {purged_page(vid, vids) : vid \in ids})
    /\ UNCHANGED <<now, ledgerVars, taskVars, index_html, sitemap_xml, last_update,
                   nUpdates, preview, deployed, progVars, uiVars>>

NextCache ==
    \/ \E ids \in RemoveChoices : TaskRemove(ids)
    \/ \E dry_run \in BOOLEAN : UpdateSite(TRUE, TRUE, dry_run, FALSE, GitWorks)
    \/ Tick

SpecCache == InitPublish /\ [][NextCache]_vars

(***************************************************************************)
(* The quota ledger's properties, checked under SpecLedger.                *)
(***************************************************************************)
\* the last direct call was a charge made with the ledger dated before today
ChargedAcrossMidnight ==
    /\ lastCall.op = "add_quota_usage"
    /\ lastCall.date_before < lastCall.today

\* C1: quota rollover.  A charge made when the ledger's date is before the
\* Pacific date resets the spend and the per-method map before applying its
\* own cost: right after it the spend is exactly that cost, booked under the
\* charged method alone, and the ledger's date is the Pacific date.
C1_ChargeRollsOver ==
    ChargedAcrossMidnight =>
        /\ ledger.estimated_units = lastCall.ret
        /\ ledger.per_method_today = [NoSpend EXCEPT ![lastCall.method] = lastCall.ret]
        /\ ledger.last_quota_date_pt = lastCall.today

C1_Witness ==
    /\ ChargedAcrossMidnight
    /\ lastCall.units_before > 0
    /\ lastCall.ret > 0
    /\ ledger.estimated_units = lastCall.ret
    /\ ledger.last_quota_date_pt = lastCall.date_before + 1

\* C2 as stated: remaining() is the cap minus the spend in every state.
C2_RemainingIsCapMinusSpent ==
    remaining_quota(ledger) = DAILY_QUOTA_LIMIT - ledger.estimated_units

\* C2 as amended: remaining() is the cap minus the spend while the spend is
\* at most the cap, and 0 once the spend is above the cap; every read returns
\* that value.
C2_RemainingClamped ==
    /\ remaining_quota(ledger) =
          IF ledger.estimated_units <= DAILY_QUOTA_LIMIT
          THEN DAILY_QUOTA_LIMIT - ledger.estimated_units
          ELSE 0
    /\ lastCall.op = "remaining_quota" =>
          lastCall.ret = IF lastCall.units_before <= DAILY_QUOTA_LIMIT
                         THEN DAILY_QUOTA_LIMIT - lastCall.units_before
                         ELSE 0

C2_Witness ==
    /\ lastCall.op = "remaining_quota"
    /\ lastCall.units_before > DAILY_QUOTA_LIMIT
    /\ lastCall.ret = 0

\* a step in which the ledger's date advances: a rollover
RolloverStep == ledger'.last_quota_date_pt > ledger.last_quota_date_pt

\* C3 as stated: the spend never decreases from one state to the next except
\* in a step where a date rollover resets it.
C3_SpendNeverDecreases ==
    [][ledger'.estimated_units < ledger.estimated_units => RolloverStep]_vars

\* C3 as amended: the spend decreases only in a rollover step, or in a
\* mark_quota_exhausted step taken with the spend above the cap, which sets
\* it to exactly the cap; remaining() increases only in a rollover step.
C3_SpendDecreasesOnlyOnRolloverOrExhaust ==
    [][/\ ledger'.estimated_units < ledger.estimated_units =>
            \/ RolloverStep
            \/ /\ lastCall'.op = "mark_quota_exhausted"
               /\ nCalls' = nCalls + 1
               /\ ledger.estimated_units > DAILY_QUOTA_LIMIT
               /\ ledger'.estimated_units = DAILY_QUOTA_LIMIT
       /\ remaining_quota(ledger') > remaining_quota(ledger) => RolloverStep
      ]_vars

C3_Witness ==
    /\ lastCall.op = "mark_quota_exhausted"
    /\ lastCall.units_before > DAILY_QUOTA_LIMIT
    /\ ledger.estimated_units = DAILY_QUOTA_LIMIT

\* C4 as stated: the spend equals the sum of the per-method spends in every
\* state reached by charges, mark_quota_exhausted and rollovers.
C4_TotalIsSumOfMethods ==
    ledger.estimated_units = SumPerMethod(ledger)

\* the spend that no method accounts for
Unattributed(L) == L.estimated_units - SumPerMethod(L)

\* a step that is a direct call of mark_quota_exhausted
MarkStep == lastCall'.op = "mark_quota_exhausted" /\ nCalls' = nCalls + 1

\* C4 as amended: starting from a consistent ledger, the spend equals the sum
\* of the per-method spends in every state reached by charges, reloads and
\* rollovers.  mark_quota_exhausted is the only step that makes them differ
\* (it sets the spend to the cap and leaves the per-method map alone); later
\* charges keep the difference as it is and a rollover makes them equal again.
C4_TotalIsSumUnlessMarked ==
    /\ Unattributed(ledger) = 0
    /\ [][/\ ~MarkStep =>
                \/ Unattributed(ledger') = Unattributed(ledger)
                \/ Unattributed(ledger') = 0
          /\ RolloverStep => Unattributed(ledger') = 0
         ]_vars

C4_Witness ==
    /\ lastCall.op = "add_quota_usage"
    /\ lastCall.units_before > 0
    /\ ledger.estimated_units = lastCall.units_before + lastCall.ret
    /\ ledger.per_method_today["videos.list"] > 0
    /\ ledger.per_method_today["search.list"] > 0
    /\ ledger.per_method_today["videos.update"] > 0
    /\ ledger.estimated_units = SumPerMethod(ledger)

\* C6: the rollover check is made on every read of remaining(): a read made
\* when the Pacific date is past the ledger's date returns the full cap.
C6_RemainingRollsOver ==
    (lastCall.op = "remaining_quota" /\ lastCall.date_before < lastCall.today)
        => lastCall.ret = DAILY_QUOTA_LIMIT

(***************************************************************************)
(* The tasks' properties, checked under SpecSync.                          *)
(***************************************************************************)
\* the pass is between two pages: every listed item was handled
BetweenPages == Discovering /\ run.items = <<>>

\* C5 as stated: the ledger never records more than the daily cap.  Detail
\* fetches, the channel fetch and a pass's first listing call are charged
\* without any look at the budget, so this is violated.
C5_SpendWithinCap == ledger.estimated_units <= DAILY_QUOTA_LIMIT

\* C5 amended: the one charge the budget guards is that of a next-page listing
\* call: a charge made between two pages of a discovery pass never takes the
\* spend past DAILY_QUOTA_LIMIT, and remaining_quota() stays within 0..limit
\* whatever the spend.
C5_PaginationChargeWithinCap ==
    /\ [](remaining_quota(ledger) \in 0..DAILY_QUOTA_LIMIT)
    /\ [][(BetweenPages /\ ledger'.estimated_units # ledger.estimated_units)
            => ledger'.estimated_units <= DAILY_QUOTA_LIMIT]_vars

\* a second page was listed and charged, and the spend is exactly the cap
C5_Witness ==
    /\ Discovering
    /\ trace.served = 2
    /\ ledger.estimated_units = DAILY_QUOTA_LIMIT

\* C7: while a discovery pass runs with remaining_quota() below the cost of
\* search.list, no step issues a listing call or raises; and when such a pass
\* comes to request the next page it returns its count with "Stopped
\* early to conserve quota." as the last entry of its error list.
C7_PaginationBudgetStop ==
    [][(Discovering /\ remaining_quota(ledger) < API_COSTS("search.list"))
         => /\ trace'.listed = trace.listed
            /\ result'.status # "raised"
            /\ (BetweenPages /\ run.next_page /\ ~MaxPagesReached)
                 => /\ pc' = "done"
                    /\ result'.status = "returned"
                    /\ result'.count = run.count
                    /\ result'.errors = Append(run.errors, StoppedEarly)]_vars

\* a discovery pass has returned with the early-stop message while a next page
\* was on offer
C7_Witness ==
    /\ pc = "done"
    /\ run.task \in {"fetch_latest", "fetch_all"}
    /\ run.next_page
    /\ result.status = "returned"
    /\ result.errors # <<>>
    /\ result.errors[Len(result.errors)] = StoppedEarly
    /\ remaining_quota(ledger) < API_COSTS("search.list")

\* a detail fetch of this refresh pass was classified QuotaExceeded
RefreshSawQuotaExceeded ==
    /\ run.task = "refresh_stale"
    /\ \E k \in 1..Len(run.errors) : run.errors[k].exc = "QuotaExceeded"

\* C8 as stated: once a detail fetch of a refresh pass raised QuotaExceeded,
\* the pass issues no further detail fetch.  The handler of line 1859 catches
\* QuotaExceeded with every other exception, so this is violated.
C8_RefreshStopsOnQuotaExceeded ==
    [][RefreshSawQuotaExceeded => Len(trace'.fetched) <= Len(trace.fetched)]_vars

\* the state at the end of a refresh pass's loop, before save_cache: the store
\* file is still what load_cache() returned
RefreshLoopDone == pc = "refresh_stale" /\ run.i > Len(run.videos)

WasFetched(id) == \E k \in 1..Len(trace.fetched) : trace.fetched[k] = id

StaleOrNeverFetched(v) == v.fetched_at = NeverFetched \/ v.fetched_at < run.cutoff

\* C9 as stated: a record that is not removed is fetched iff it is selected,
\* was never fetched, or is stale, also when a selection is given and does not
\* contain it.  Violated: with a selection, line 1830 passes over every
\* record outside it.
C9_RefreshedIffSelectedOrStale ==
    RefreshLoopDone =>
        \A k \in 1..Len(videos_json) :
            videos_json[k].video_id \notin removed_json =>
                (WasFetched(videos_json[k].video_id)
                    <=> \/ run.by_ids # {} /\ videos_json[k].video_id \in run.by_ids
                        \/ StaleOrNeverFetched(videos_json[k]))

\* C9 amended: a record that is not removed is fetched iff it is in a
\* non-empty selection, or no selection is given (by_ids is None or empty) and
\* the record was never fetched or is older than the cutoff.
C9_RefreshedIffSelectedElseStale ==
    RefreshLoopDone =>
        \A k \in 1..Len(videos_json) :
            videos_json[k].video_id \notin removed_json =>
                (WasFetched(videos_json[k].video_id)
                    <=> \/ run.by_ids # {} /\ videos_json[k].video_id \in run.by_ids
                        \/ run.by_ids = {} /\ StaleOrNeverFetched(videos_json[k]))

\* a pass with a selection has passed over a stale record outside it and
\* fetched the selected one
C9_Witness ==
    /\ RefreshLoopDone
    /\ run.by_ids # {}
    /\ trace.fetched # <<>>
    /\ \E k \in 1..Len(videos_json) :
          /\ videos_json[k].video_id \notin removed_json
          /\ videos_json[k].video_id \notin run.by_ids
          /\ StaleOrNeverFetched(videos_json[k])
          /\ ~WasFetched(videos_json[k].video_id)

\* C10: no pass fetches the details of an id in the removed registry, and
\* no discovery pass appends a record for one.
C10_RemovedAlwaysSkipped ==
    /\ \A k \in 1..Len(trace.fetched) : trace.fetched[k] \notin removed_json
    /\ pc # "idle" =>
          \A k \in (Len(videos_json) + 1)..Len(run.videos) :
              run.videos[k].video_id \notin removed_json

\* a refresh pass was asked for a removed, never-fetched record by id and has
\* gone through the store
C10_Witness ==
    /\ RefreshLoopDone
    /\ \E k \in 1..Len(run.videos) :
          /\ run.videos[k].video_id \in removed_json
          /\ run.videos[k].video_id \in run.by_ids
          /\ run.videos[k].fetched_at = NeverFetched

\* how many detail fetches the running pass has issued for id
TimesFetched(id) == Cardinality({k \in 1..Len(trace.fetched) : trace.fetched[k] = id})

\* C12: a record that is not removed and whose id is in by_ids gets exactly
\* one detail fetch in a refresh pass, also when its fetched_at is the
\* current time.
C12_SelectedFetchedOnce ==
    RefreshLoopDone =>
        \A k \in 1..Len(videos_json) :
            (videos_json[k].video_id \in run.by_ids
                /\ videos_json[k].video_id \notin removed_json)
            => TimesFetched(videos_json[k].video_id) = 1

\* a pass has fetched once a selected record that was fetched at this tick
C12_Witness ==
    /\ RefreshLoopDone
    /\ \E k \in 1..Len(videos_json) :
          /\ videos_json[k].video_id \in run.by_ids
          /\ videos_json[k].video_id \notin removed_json
          /\ videos_json[k].fetched_at = now
          /\ ~(videos_json[k].fetched_at < run.cutoff)
          /\ TimesFetched(videos_json[k].video_id) = 1

(***************************************************************************)
(* The repeated refresh pass's properties, checked under SpecRepeat.       *)
(***************************************************************************)
\* the second of two refresh passes without a selection is running or done
SecondRun == first_run.done /\ run.by_ids = {}

\* C11 as stated: whatever the first pass's outcomes, the second of two
\* immediately successive refresh passes issues no detail fetch.  Violated:
\* a record whose fetch failed in the first pass keeps its fetched_at and is
\* fetched again.
C11_SecondRunFetchesNothing == SecondRun => trace.fetched = <<>>

\* C11 amended: the second of two immediately successive refresh passes
\* issues no detail fetch for a record whose fetch returned in the first
\* pass (details or not modified); it fetches again exactly the records
\* whose fetch failed in the first pass.
C11_SecondRunFetchesOnlyFailed ==
    SecondRun =>
        /\ Range(trace.fetched) \cap first_run.refreshed = {}
        /\ Range(trace.fetched) \subseteq first_run.failed
        /\ RefreshLoopDone => Range(trace.fetched) = first_run.failed

\* the second pass went through a store of which the first pass had refreshed
\* a record, and fetched nothing
C11_Witness ==
    /\ SecondRun
    /\ RefreshLoopDone
    /\ first_run.refreshed # {}
    /\ first_run.failed = {}
    /\ trace.fetched = <<>>

(***************************************************************************)
(* update_site's properties, checked under SpecPublish.                    *)
(***************************************************************************)
\* the last two update_site runs were the same non-dry run, without
\* force_rebuild, at the same time
SameUpdateTwice ==
    /\ nUpdates >= 2
    /\ ~last_update.flags.dry_run
    /\ ~last_update.flags.force_rebuild
    /\ \A field \in {"update_index", "update_videos", "dry_run", "force_rebuild", "at"} :
          last_update.before[field] = last_update.flags[field]

\* C13 as stated: whatever the store (slugs need not be unique), the second
\* of two successive update_site runs without dry_run and force_rebuild, with
\* no record changed in between, returns an empty changed_files.  Violated:
\* two records of one slug overwrite each other's page in every run, a live
\* page whose slug a removed record shares is deleted in every run, and a
\* record without dates renders with the instant of the render.
C13_SecondUpdateChangesNothing ==
    SameUpdateTwice => last_update.changed_files = <<>>

\* the records update_site renders, and the names of their pages
LiveVideos == live_videos(videos_json, removed_json)
LiveNames == {output_basename(LiveVideos[k]) : k \in 1..Len(LiveVideos)}

\* the live tree is up to date: the pages are those of the live records,
\* and the index and the sitemap are what a render gives now
UpToDate ==
    /\ \A name \in Names : videos_dir[name] # NoText <=> name \in LiveNames
    /\ index_html = render_index(LiveVideos)
    /\ sitemap_xml = regenerate_sitemap(LiveVideos, now)

\* C14: an update_site run with force_rebuild over an up-to-date tree returns
\* exactly one changed_files entry per rendered record, the record's page, and
\* no other entry; with one record in the store, exactly one entry.
C14_ForceRebuildOneEntryPerRecord ==
    [][(nUpdates' = nUpdates + 1 /\ last_update'.flags.force_rebuild /\ UpToDate)
         => last_update'.changed_files =
               IF last_update'.flags.update_videos
               THEN [k \in 1..Len(LiveVideos) |->
                        Changed("page", output_basename(LiveVideos[k]))]
               ELSE <<>>]_vars

\* a full run and then, at once, a run with force_rebuild over a store of one
\* record: the second run returned the record's page and nothing else
C14_Witness ==
    /\ nUpdates = 2
    /\ Len(videos_json) = 1
    /\ removed_json = {}
    /\ ~last_update.before.dry_run
    /\ last_update.before.update_index /\ last_update.before.update_videos
    /\ last_update.before.at = last_update.flags.at
    /\ last_update.flags.force_rebuild
    /\ last_update.flags.update_index /\ last_update.flags.update_videos
    /\ last_update.changed_files = <<Changed("page", output_basename(videos_json[1]))>>
    /\ UpToDate

\* the records of the store whose id is in the removed registry
RemovedRecords == {k \in 1..Len(videos_json) : videos_json[k].video_id \in removed_json}

InIndex(id) ==
    /\ index_html # NoText
    /\ \E k \in 1..Len(index_html.items) : index_html.items[k].video_id = id

InSitemap(name) ==
    /\ sitemap_xml # NoText
    /\ \E k \in 1..Len(sitemap_xml.urls) : sitemap_xml.urls[k].name = name

\* update_site has run, and its last run was no dry run
UpdatedLive == nUpdates >= 1 /\ ~last_update.flags.dry_run

DiscoveryCutShort ==
    /\ pc = "done"
    /\ run.task \in {"fetch_latest", "fetch_all"}
    /\ result.status = "returned"
    /\ result.errors # <<>>
    /\ result.errors[Len(result.errors)].exc = "QuotaExceeded"

\* the records the pass appended to the list it loaded
Appended == {run.videos[k] : k \in (Len(run.videos) - run.count + 1)..Len(run.videos)}

\* C20: when a discovery pass is cut short by QuotaExceeded, in a detail
\* fetch or in a listing call, it returns its count and errors, and every
\* record it appended before is in the saved store.
C20_QuotaExceededKeepsAppended ==
    DiscoveryCutShort =>
        /\ result.count = run.count
        /\ Appended \subseteq Range(videos_json)
        /\ videos_json = run.videos

\* a pass appended a record and was then cut short
C20_Witness ==
    /\ DiscoveryCutShort
    /\ run.count >= 1
    /\ Appended # {}
    /\ Appended \subseteq Range(videos_json)
    /\ Len(videos_json) > Len(run.videos) - run.count

\* the calls answered in one step of a pass, and what they cost
NewCalls == SubSeq(trace'.calls, Len(trace.calls) + 1, Len(trace'.calls))

RECURSIVE CostOfCalls(_, _, _)
CostOfCalls(calls, methods, wanted) ==
    IF calls = <<>> THEN 0
    ELSE (IF Head(calls).method \in methods /\ Head(calls).returned \in wanted
          THEN API_COSTS(Head(calls).method) ELSE 0)
         + CostOfCalls(Tail(calls), methods, wanted)

\* a step of a pass whose charges find the ledger on today's quota day
StepOfPassWithinDay == pc' # "idle" /\ ledger.last_quota_date_pt = Today

Charged == ledger'.estimated_units - ledger.estimated_units
ChargedFor(method) ==
    ledger'.per_method_today[method] - ledger.per_method_today[method]

\* C19 as stated: a call that returned has charged the cost of its call-type,
\* and the spend of a pass grows by the costs of the calls that returned
\* and by nothing else.
C19_SpendIsCostOfReturnedCalls ==
    [][StepOfPassWithinDay =>
          /\ \A m \in Methods : ChargedFor(m) >= CostOfCalls(NewCalls, {m}, {TRUE})
          /\ Charged = CostOfCalls(NewCalls, Methods, {TRUE})]_vars

\* C19: within one quota day, every step of a pass charges each call-type
\* its cost once per call that was answered, whether the fetch function
\* then returned (a record, Unchanged, a listing page, the channel) or
\* raised "not found"; the spend grows by the sum of these costs.
C19_SpendIsCostOfAnsweredCalls ==
    [][StepOfPassWithinDay =>
          /\ \A m \in Methods : ChargedFor(m) = CostOfCalls(NewCalls, {m}, BOOLEAN)
          /\ Charged = CostOfCalls(NewCalls, Methods, BOOLEAN)]_vars

\* a pass in which the channel call, a listing call and a detail call
\* returned and another detail call was answered "not found"
C19_Witness ==
    /\ pc = "done"
    /\ \E k \in 1..Len(trace.calls) :
          trace.calls[k].method = "videos.list" /\ ~trace.calls[k].returned
    /\ \A m \in {"channels.list", "search.list", "videos.list"} :
          \E k \in 1..Len(trace.calls) :
             trace.calls[k].method = m /\ trace.calls[k].returned

(***************************************************************************)
(* End to end: one refresh_stale(7) pass and update_site runs over a store *)
(* with one record that was never fetched.                                 *)
(***************************************************************************)
EndToEndStores == {<<Unfetched(1)>>, <<FetchedAtStart(1), Unfetched(2)>>}

SMART_REFRESH_DAYS == 7

\* update_site runs in one end-to-end behaviour
MaxPublishes == 1

InitEndToEnd ==
    /\ InitTasks
    /\ removed_json = {}
    /\ ledger = LoadedLedger(0, <<99, 97>>)
    /\ videos_json \in EndToEndStores
    /\ \/ NoSite
       \/ /\ videos_dir = PublishedBefore(videos_json).dir
          /\ index_html = PublishedBefore(videos_json).index
          /\ sitemap_xml = PublishedBefore(videos_json).sitemap
          /\ last_update = NoUpdate
          /\ nUpdates = 0
          /\ preview = NoPreview
          /\ deployed = NoDeploy

NextEndToEnd ==
    \/ \E chHttp \in ChannelResponses : RefreshStaleStart(SMART_REFRESH_DAYS, {}, chHttp)
    \/ RefreshStaleSkip
    \/ RefreshStaleFetch
    \/ RefreshStaleFinish
    \/ TaskReturns
    \/ \E update_index \in BOOLEAN, update_videos \in BOOLEAN, dry_run \in BOOLEAN :
          nUpdates < MaxPublishes
          /\ UpdateSite(update_index, update_videos, dry_run, FALSE, GitWorks)
    \/ Tick

SpecEndToEnd == InitEndToEnd /\ [][NextEndToEnd]_vars

\* the first refresh pass over the one-record store has ended
FirstPassEnded ==
    /\ pc = "done"
    /\ run.task = "refresh_stale"
    /\ nPasses = 1
    /\ Len(run.videos) = 1

\* ... and returned without an error
FirstPassSucceeded ==
    FirstPassEnded /\ result.status = "returned" /\ result.errors = <<>>

\* the step of the first pass in which the detail fetch is made
FirstPassFetches ==
    /\ pc = "refresh_stale"
    /\ nPasses = 1
    /\ Len(run.videos) = 1
    /\ trace'.fetched # trace.fetched

\* the first update_site run, not dry, with index and pages, over the
\* one-record store once the record was fetched
PublishAfterRefresh ==
    /\ nUpdates = 0
    /\ nUpdates' = 1
    /\ Len(videos_json) = 1
    /\ videos_json[1].fetched_at # NeverFetched
    /\ ~last_update'.flags.dry_run
    /\ last_update'.flags.update_index
    /\ last_update'.flags.update_videos

CountOf(whats, changed_files) ==
    Cardinality({k \in 1..Len(changed_files) : changed_files[k].what \in whats})

\* the live pages that are not the page of the record
StalePages ==
    {n \in Names : videos_dir[n] # NoText /\ n # output_basename(videos_json[1])}

C21_PassNeverRaises == pc = "done" => result.status = "returned"

\* a call of the pass that has ended was classified as QuotaExceeded
PassSawQuotaExceeded ==
    /\ pc = "done"
    /\ \/ result.exc = "QuotaExceeded"
       \/ \E k \in 1..Len(run.errors) : run.errors[k].exc = "QuotaExceeded"
       \/ \E k \in 1..Len(result.errors) : result.errors[k].exc = "QuotaExceeded"

\* C22: when a pass in which a call was classified as QuotaExceeded is back
\* at its caller, remaining_quota() is 0.
C22_QuotaExceededExhaustsLedger ==
    [][PassSawQuotaExceeded /\ pc' = "idle" => remaining_quota(ledger') = 0]_vars

\* a ledger call made on the ledger's own quota day
CallWithinDay(op) ==
    /\ nCalls' = nCalls + 1
    /\ lastCall'.op = op
    /\ ledger.last_quota_date_pt = today_pacific(now)

\* C23: whether or not the quota file could be written, the memory holds
\* the new spend after a charge and the cap after mark_quota_exhausted, and
\* remaining_quota() reflects it.
C23_MemoryKeepsChargeWhenWriteFails ==
    /\ [][CallWithinDay("add_quota_usage") =>
            /\ ledger'.estimated_units = ledger.estimated_units + lastCall'.ret
            /\ remaining_quota(ledger')
                 = Max(0, DAILY_QUOTA_LIMIT - (ledger.estimated_units + lastCall'.ret))]_vars
    /\ [][CallWithinDay("mark_quota_exhausted") =>
            /\ ledger'.estimated_units = DAILY_QUOTA_LIMIT
            /\ remaining_quota(ledger') = 0]_vars

\* an update_site run, dry or not
UpdateStep == nUpdates' = nUpdates + 1
DryRunStep == UpdateStep /\ last_update'.flags.dry_run

\* the live records at an update, and the page update_site renders for one
Rendered(v, f) ==
    force_touch(render_video_page(v, LiveVideos, f.instant), f.force_rebuild, f.instant)

\* C24: a dry run creates, overwrites and deletes nothing in the live tree:
\* the pages, index.html and sitemap.xml are what they were; what it
\* rendered is in the preview directory.
C24_DryRunLeavesLiveTree ==
    [][DryRunStep =>
          /\ videos_dir' = videos_dir
          /\ index_html' = index_html
          /\ sitemap_xml' = sitemap_xml
          /\ preview'.sitemap = regenerate_sitemap(LiveVideos, now)
          /\ last_update'.flags.update_index => preview'.index = render_index(LiveVideos)
          /\ last_update'.flags.update_videos =>
                \A k \in 1..Len(LiveVideos) :
                   preview'.dir[output_basename(LiveVideos[k])] # NoText]_vars

\* a dry run over a store with a record rendered pages, index and sitemap
\* into the preview and the live tree is still empty
C24_Witness ==
    /\ nUpdates = 1
    /\ last_update.flags.dry_run
    /\ last_update.flags.update_videos
    /\ last_update.flags.update_index
    /\ LiveVideos # <<>>
    /\ preview.dir[output_basename(LiveVideos[1])] # NoText
    /\ preview.index # NoText
    /\ preview.sitemap # NoText
    /\ videos_dir = EmptyDir
    /\ index_html = NoText
    /\ sitemap_xml = NoText

\* the names of the entries of one kind in a changed_files list
NamesOf(what, files) == {files[k].name : k \in {j \in 1..Len(files) : files[j].what = what}}

\* what update_site without dry_run does on the store, the removed ids and
\* the live tree a step starts from, the other flags being the step's
NonDryRun ==
    update_site([last_update'.flags EXCEPT !.dry_run = FALSE], load_cache, load_removed,
                videos_dir, index_html, sitemap_xml, now, preview)

\* C25: the files a dry run reports as would-delete are the files update_site
\* without dry_run deletes on the same store, removed ids and live tree; they
\* are reported with the would-delete prefix, never as deleted files.
C25_WouldDeleteIsWhatIsDeleted ==
    [][DryRunStep =>
          /\ NamesOf("would delete", last_update'.changed_files)
                = NamesOf("deleted", NonDryRun.changed_files)
          /\ NamesOf("deleted", last_update'.changed_files) = {}]_vars

\* a removed record and a live record have the same page name
RemovedSharesPage ==
    \E i \in load_removed : removed_slug(i, load_cache) \in LiveNames

\* the same, for stores where no removed record shares its page name with a
\* live record
C25_WouldDeleteUnlessSharedPage ==
    [][DryRunStep /\ ~RemovedSharesPage =>
          NamesOf("would delete", last_update'.changed_files)
            = NamesOf("deleted", NonDryRun.changed_files)]_vars

\* the live records whose rendered page differs from the file in VIDEOS_DIR
PagesThatDiffer(f) ==
    {k \in 1..Len(LiveVideos) :
        Rendered(LiveVideos[k], f) # videos_dir[output_basename(LiveVideos[k])]}

\* the entries of one kind in a changed_files list
CountOfKind(what, files) == Cardinality({j \in 1..Len(files) : files[j].what = what})

\* a dry run follows a dry run with the same flags on the same day, the
\* store, the removed ids and the live tree being what they were
DryRunRepeated ==
    /\ DryRunStep
    /\ nUpdates >= 1
    /\ last_update.flags.dry_run
    /\ \A field \in {"update_index", "update_videos", "force_rebuild"} :
          last_update'.flags[field] = last_update.flags[field]

\* the reports of a dry run: a page per live record whose rendering differs
\* from the live file, the index and the sitemap when theirs differ
DryRunReportsWhatDiffers ==
    LET f == last_update'.flags
        files == last_update'.changed_files
    IN  /\ CountOfKind("page", files)
              = IF f.update_videos THEN Cardinality(PagesThatDiffer(f)) ELSE 0
        /\ NamesOf("page", files)
              = IF f.update_videos
                THEN {output_basename(LiveVideos[k]) : k \in PagesThatDiffer(f)} ELSE {}
        /\ CountOfKind("index", files)
              = IF f.update_index /\ render_index(LiveVideos) # index_html THEN 1 ELSE 0
        /\ CountOfKind("sitemap", files)
              = IF regenerate_sitemap(LiveVideos, now) # sitemap_xml THEN 1 ELSE 0

QuotaDays == {today_pacific(t) : t \in 0..MaxNow}

\* mark_quota_exhausted was the last direct call, made on quota day d
MarkedOn(d) == lastCall.op = "mark_quota_exhausted" /\ lastCall.today = d

\* the clock is in quota day d
DuringDay(d) == today_pacific(now) = d

\* the spend is the cap and nothing remains
AtCap(L) == L.estimated_units = DAILY_QUOTA_LIMIT /\ remaining_quota(L) = 0

\* C28: when mark_quota_exhausted returns the spend is the cap and
\* remaining_quota() is 0, and they still are after the next step taken in
\* the quota day of the call, whatever that step is.
C28_ExhaustedUntilRollover ==
    [][/\ MarkStep => AtCap(ledger')
       /\ MarkedOn(today_pacific(now')) => AtCap(ledger')]_vars

\* what holds: once mark_quota_exhausted was called with the ledger dated
\* the day of the call, the spend is at least the cap and remaining_quota()
\* is 0 in every later state of that day
C28_ExhaustedWhenLedgerDatedToday ==
    \A d \in QuotaDays :
        [](MarkedOn(d) /\ lastCall.date_before = d =>
             [](DuringDay(d) => /\ ledger.estimated_units >= DAILY_QUOTA_LIMIT
                                /\ remaining_quota(ledger) = 0))

\* mark_quota_exhausted called after midnight with the ledger still dated the
\* day before: the spend is 0 when it returns
C28_ExhaustionLostAtMidnight ==
    /\ lastCall.op = "mark_quota_exhausted"
    /\ lastCall.date_before < lastCall.today
    /\ DuringDay(lastCall.today)
    /\ remaining_quota(ledger) = DAILY_QUOTA_LIMIT

\* no two records of a store have the same id
IdsDistinct(videos) ==
    \A j, k \in 1..Len(videos) : videos[j].video_id = videos[k].video_id => j = k

\* C26: the ids of the store are pairwise distinct after any sequence of
\* refresh_stale, fetch_latest and fetch_all passes, and so are those of the
\* list a pass works on, whatever the listing pages repeat.
C26_IdsStayDistinct ==
    /\ IdsDistinct(videos_json)
    /\ IdsDistinct(run.videos)

\* a discovery pass was served the page that lists id 2 twice, appended one
\* record for it and saved the store
C26_Witness ==
    /\ pc = "done"
    /\ run.task \in {"fetch_latest", "fetch_all"}
    /\ result.status = "returned"
    /\ 2 \notin run.removed
    /\ \E r \in Appended : r.video_id = 2
    /\ Cardinality({k \in 1..Len(videos_json) : videos_json[k].video_id = 2}) = 1

\* the last answered call of the pass, and a step of refresh_stale whose
\* videos.list request was answered 304
LastCall(tr) == tr.calls[Len(tr.calls)]
UnchangedStep ==
    /\ pc = "refresh_stale"
    /\ Len(trace'.calls) = Len(trace.calls) + 1
    /\ LastCall(trace').method = "videos.list"
    /\ LastCall(trace').unchanged

\* C29: a 304 answer to the detail fetch of refresh_stale changes the
\* fetched_at of the record that was fetched and nothing else: its data
\* (title, description, tags, slug, counts, category, duration, channel) and
\* its etag are what they were, and so are the other records.
C29_UnchangedBumpsFetchedAtOnly ==
    [][UnchangedStep =>
          /\ Len(run'.videos) = Len(run.videos)
          /\ \A k \in 1..Len(run.videos) :
                run'.videos[k] = IF k = run.i
                                 THEN [run.videos[k] EXCEPT !.fetched_at = now]
                                 ELSE run.videos[k]]_vars

\* a record answered 304 has a new fetched_at and the data and etag of the
\* record in the store
C29_Witness ==
    /\ pc = "refresh_stale"
    /\ trace.calls # <<>>
    /\ LastCall(trace).unchanged
    /\ run.i > 1
    /\ run.videos[run.i - 1].fetched_at = now
    /\ videos_json[run.i - 1].fetched_at # now
    /\ run.videos[run.i - 1].data = videos_json[run.i - 1].data
    /\ run.videos[run.i - 1].etag = videos_json[run.i - 1].etag

\* the last entry of an error list
LastError(errors) == errors[Len(errors)]

\* a step that made a detail fetch which neither returned nor was recorded
\* as QuotaExceeded: yt_get or fetch_video_details raised RuntimeError
\* (a 403 without quota reason, a 500, a video that was not found)
TransientStep ==
    /\ Len(trace'.fetched) = Len(trace.fetched) + 1
    /\ run'.count = run.count
    /\ ~(/\ Len(run'.errors) = Len(run.errors) + 1
          /\ LastError(run'.errors).exc = "QuotaExceeded")

\* the pass goes on with the record or the listed item after the current one
PassGoesOn ==
    /\ pc' = pc
    /\ result' = result
    /\ IF pc = "refresh_stale" THEN run'.i = run.i + 1 ELSE run'.items = Tail(run.items)

\* C30: a RuntimeError raised by the detail fetch of one record, in
\* refresh_stale, fetch_latest or fetch_all, is appended to the error list
\* with the record's id and the pass goes on with the next record or listed
\* item; a refresh_stale that fetched has returned with a fetch made for
\* every record that still needs one, and a discovery pass leaves listed
\* items unprocessed only when it ended on QuotaExceeded.
C30_TransientErrorDoesNotEndBatch ==
    /\ [][TransientStep =>
             /\ Len(run'.errors) = Len(run.errors) + 1
             /\ LastError(run'.errors).exc = "RuntimeError"
             /\ LastError(run'.errors).vid = trace'.fetched[Len(trace'.fetched)]
             /\ PassGoesOn]_vars
    /\ [](pc = "done" /\ run.task = "refresh_stale" /\ trace.fetched # <<>> =>
             /\ result.status = "returned"
             /\ \A k \in 1..Len(run.videos) :
                   needs_refresh(run.videos[k], run.removed, run.by_ids, run.cutoff)
                     => run.videos[k].video_id \in Range(trace.fetched))
    /\ [](pc = "done" /\ run.task \in {"fetch_latest", "fetch_all"}
             /\ result.status = "returned" /\ run.items # <<>> =>
             /\ result.errors # <<>>
             /\ LastError(result.errors).exc = "QuotaExceeded")

\* a pass returned with a RuntimeError recorded for one id and a fetch that
\* returned for an id that came after it
C30_Witness ==
    /\ pc = "done"
    /\ result.status = "returned"
    /\ \E j \in 1..Len(trace.fetched) :
          /\ \E e \in Range(result.errors) :
                e.exc = "RuntimeError" /\ e.vid = trace.fetched[j]
          /\ \E k \in (j + 1)..Len(trace.fetched) :
                trace.fetched[k] \notin FailedIds(result.errors)
    /\ result.count >= 1

\* C31: a refresh_stale pass that has ended called save_cache exactly once,
\* and no detail fetch of the pass is made after that call: while the loop
\* runs nothing was saved.
C31_RefreshSavesOnce ==
    /\ pc = "done" /\ run.task = "refresh_stale" => run.saves = 1
    /\ pc = "refresh_stale" => run.saves = 0

\* the same for the passes that returned
C31_ReturnedRefreshSavedOnce ==
    /\ pc = "done" /\ run.task = "refresh_stale" /\ result.status = "returned"
          => run.saves = 1
    /\ pc = "refresh_stale" => run.saves = 0

\* a refresh_stale pass ended without a call of save_cache
C31_RefreshEndedUnsaved ==
    pc = "done" /\ run.task = "refresh_stale" /\ run.saves = 0

(***************************************************************************)
(* update_site with a git that may fail, checked under SpecDeploy.         *)
(***************************************************************************)
GitSteps == {"open", "add", "status", "commit", "pull", "push"}

\* no step fails, one step fails, every step whose failure deploy catches
\* fails, and git fails from the second call on
FailChoices ==
    {{}} \cup {{step} : step \in GitSteps}
         \cup {{"add", "commit", "pull", "push"}, GitSteps \ {"open"}}

\* the failures happen in a work tree with changes and a remote; a git
\* that works has them or not
GitChoices ==
    {[failing |-> F, dirty |-> TRUE, origin |-> TRUE] : F \in FailChoices}
    \cup {[failing |-> {}, dirty |-> d, origin |-> o] : d \in BOOLEAN, o \in BOOLEAN}

NextDeploy ==
    \/ \E dry_run \in BOOLEAN, git \in GitChoices :
          UpdateSite(TRUE, TRUE, dry_run, FALSE, git)
    \/ Tick

SpecDeploy == InitPublish /\ [][NextDeploy]_vars

\* an update_site run that is not a dry run
NonDryStep == UpdateStep /\ ~last_update'.flags.dry_run

\* the git steps deploy called that raised
FailedSteps(dep) == dep.git.failing \cap Range(dep.calls)

\* both notification functions were called
Notified(dep) ==
    /\ "indexnow_submit" \in Range(dep.calls)
    /\ "google_sitemap_ping" \in Range(dep.calls)

\* C32: whatever git step fails in deploy (opening the repository, add,
\* status, commit, pull, push), update_site returns, indexnow_submit and
\* google_sitemap_ping are still called, and deploy_output has a line
\* reporting each failure.
C32_GitFailuresAreNotFatal ==
    [][NonDryStep =>
          /\ Notified(deployed')
          /\ \A step \in FailedSteps(deployed') :
                Line(step, FALSE) \in Range(deployed'.output)]_vars

\* what holds: when the repository opens and the status check works, the
\* failures of add, commit, pull and push are reported and both notification
\* functions are called; when one of the two fails the run still returns
\* with a failure line, and nothing is notified
C32_CaughtFailuresAreNotFatal ==
    [][NonDryStep =>
          IF deployed'.git.failing \cap {"open", "status"} = {}
          THEN /\ Notified(deployed')
               /\ \A step \in FailedSteps(deployed') :
                     Line(step, FALSE) \in Range(deployed'.output)
          ELSE /\ ~Notified(deployed')
               /\ \E line \in Range(deployed'.output) : ~line.ok]_vars

\* the repository could not be opened: deploy returned before the
\* notifications
C32_OpenFailureSkipsNotifications ==
    /\ nUpdates >= 1
    /\ ~last_update.flags.dry_run
    /\ deployed.calls = <<"open">>
    /\ last_update.urls # <<>>

\* the place of the first call of a function in deploy's calls, 0 if none
PlaceOf(call, calls) ==
    IF call \in Range(calls)
    THEN CHOOSE k \in 1..Len(calls) :
            calls[k] = call /\ \A j \in 1..(k - 1) : calls[j] # call
    ELSE 0

\* the urls of the artifacts the run reports as changed were handed to the
\* notification functions, which deploy called after commit, pull and push
ChangedAreNotified(files, dep) ==
    /\ \A n \in NamesOf("page", files) : n \in Range(dep.urls)
    /\ CountOfKind("index", files) > 0 => NoName \in Range(dep.urls)
    /\ Notified(dep)
    /\ \A step \in {"commit", "pull", "push"} :
          PlaceOf(step, dep.calls) < PlaceOf("indexnow_submit", dep.calls)

\* C33: an update_site run that is not a dry run hands the url of every page
\* it reports as changed, and the site url when the index changed, to
\* indexnow_submit, and pings the sitemap, in the same run and after the
\* commit, pull and push of deploy.
C33_ChangedUrlsAreNotified ==
    [][NonDryStep => ChangedAreNotified(last_update'.changed_files, deployed')]_vars

\* the same, for the runs whose deploy could open the repository and read
\* its status
C33_ChangedUrlsAreNotifiedWhenRepoOpens ==
    [][NonDryStep /\ deployed'.git.failing \cap {"open", "status"} = {} =>
          ChangedAreNotified(last_update'.changed_files, deployed')]_vars

\* C34: a dry run of update_site does not call deploy: no git step and no
\* notification function is called, no url is handed over, and the
\* deploy_output it returns is empty.
C34_DryRunNeverDeploys ==
    [][DryRunStep =>
          /\ deployed'.calls = <<>>
          /\ deployed'.urls = <<>>
          /\ deployed'.output = <<>>]_vars

\* a dry run that reported changed pages followed a run that deployed
C34_Witness ==
    /\ nUpdates = 2
    /\ last_update.flags.dry_run
    /\ ~last_update.before.dry_run
    /\ last_update.urls # <<>>
    /\ deployed = NoDeploy

\* C35: no step removes a record from the store: the ids of videos_json
\* after a step include those before it, and _task_remove only adds the ids
\* to the removed registry.
C35_RecordsNeverHardDeleted ==
    [][IdsOf(videos_json) \subseteq IdsOf(videos_json')]_vars

\* what _task_remove does: the records of the ids leave the store, and the
\* ids that were in the store, no others, join the removed registry
C35_RemoveDeletesAndTombstones ==
    [][videos_json' # videos_json =>
          /\ removed_json' = removed_json \cup (IdsOf(videos_json) \ IdsOf(videos_json'))
          /\ IdsOf(videos_json') \subseteq IdsOf(videos_json)]_vars

\* every live record has its page in VIDEOS_DIR
LivePagesPresent(dir) ==
    \A k \in 1..Len(LiveVideos) : dir[output_basename(LiveVideos[k])] # NoText

\* C38: after an update_site run that is not a dry run and renders the
\* pages, the page of every record that is not removed is in VIDEOS_DIR:
\* prune_orphan_pages and _prune_changed_slugs delete no page of a live
\* record, also when a removed record has the same slug as a live one.
C38_PruningKeepsLivePages ==
    [][NonDryStep /\ last_update'.flags.update_videos => LivePagesPresent(videos_dir')]_vars

\* the same when no removed record of the store shares its page name with a
\* live record
C38_PruningKeepsUnsharedPages ==
    [][NonDryStep /\ last_update'.flags.update_videos /\ ~RemovedSharesPage
          => LivePagesPresent(videos_dir')]_vars

\* an update_site run rendered the page of a live record and deleted it
C38_LivePageDeleted ==
    /\ nUpdates >= 1
    /\ ~last_update.flags.dry_run
    /\ last_update.flags.update_videos
    /\ \E k \in 1..Len(LiveVideos) :
          /\ videos_dir[output_basename(LiveVideos[k])] = NoText
          /\ output_basename(LiveVideos[k]) \in NamesOf("deleted", last_update.changed_files)

(***************************************************************************)
(* The operations the UI starts, checked under SpecWorkers.  The callbacks *)
(* of the buttons run one after the other on the callback thread; a        *)
(* callback either starts a daemon thread and returns (_run_thread) or     *)
(* runs its task itself (_run_task_cache).                                 *)
(***************************************************************************)
MaxWorkers == 3

\* the tasks of the cache tab: Smart Refresh, Fetch ALL, Refresh These IDs,
\* Remove & Purge (lines 4350-4361)
CacheTasks == {"refresh_stale", "fetch_all", "refresh_ids", "remove"}

\* the files an operation writes
Writes(op) ==
    CASE op = "update_site" -> {"videos.json", "quota", "tree"}
      [] op = "remove" -> {"videos.json", "removed.json", "tree"}
      [] OTHER -> {"videos.json", "quota"}

Worker(op, thread) == [op |-> op, thread |-> thread, step |-> "loaded"]

\* a callback can run: the callback thread is not inside a cache task
CallbackThreadFree == \A k \in 1..Len(workers) : workers[k].thread # "callback"

\* _confirm_and_run / _run_site_update_from_ui: _run_thread starts a daemon
\* thread that runs the update and the callback returns; nothing is checked
\* before the thread is started
ConfirmAndRun ==
    /\ CallbackThreadFree
    /\ Len(workers) < MaxWorkers
    /\ workers' = Append(workers, Worker("update_site", "daemon"))
    /\ UNCHANGED <<now, ledgerVars, storeVars, taskVars, siteVars, progVars, interrupted>>

\* _run_task_cache(task_fn): the controls are hidden and task_fn() runs in
\* the callback itself
RunTaskCache(task) ==
    /\ CallbackThreadFree
    /\ Len(workers) < MaxWorkers
    /\ workers' = Append(workers, Worker(task, "callback"))
    /\ UNCHANGED <<now, ledgerVars, storeVars, taskVars, siteVars, progVars, interrupted>>

\* an operation in flight goes from what it loaded to its writes
WorkerSaves(k) ==
    /\ k \in 1..Len(workers)
    /\ workers[k].step = "loaded"
    /\ workers' = [workers EXCEPT ![k].step = "saving"]
    /\ UNCHANGED <<now, ledgerVars, storeVars, taskVars, siteVars, progVars, interrupted>>

\* an operation returns and its thread is free again
WorkerEnds(k) ==
    /\ k \in 1..Len(workers)
    /\ workers[k].step = "saving"
    /\ workers' = SubSeq(workers, 1, k - 1) \o SubSeq(workers, k + 1, Len(workers))
    /\ UNCHANGED <<now, ledgerVars, storeVars, taskVars, siteVars, progVars, interrupted>>

NextWorkers ==
    \/ ConfirmAndRun
    \/ \E task \in CacheTasks : RunTaskCache(task)
    \/ \E k \in 1..MaxWorkers : WorkerSaves(k)
    \/ \E k \in 1..MaxWorkers : WorkerEnds(k)

InitWorkers ==
    /\ InitTasks
    /\ NoSite
    /\ ledger = LoadedLedger(0, <<0, 0>>)
    /\ videos_json \in PublishStores

SpecWorkers == InitWorkers /\ [][NextWorkers]_vars

\* the operations in flight that write a file another one in flight writes
Conflicts ==
    {<<j, k>> \in (1..Len(workers)) \X (1..Len(workers)) :
        j < k /\ Writes(workers[j].op) \cap Writes(workers[k].op) # {}}

\* C36: at most one publish, refresh or discovery operation is in flight:
\* while one runs, no second operation that writes the store, the quota
\* file or the site tree has started.
C36_OneOperationInFlight ==
    /\ Len(workers) <= 1
    /\ Conflicts = {}

\* what holds: at most one operation runs on the callback thread, and every
\* other operation in flight is an update on a thread of its own
C36_OneCacheTaskInFlight ==
    /\ Cardinality({k \in 1..Len(workers) : workers[k].thread = "callback"}) <= 1
    /\ \A k \in 1..Len(workers) :
          workers[k].thread = "daemon" => workers[k].op = "update_site"

\* two updates in flight, both past load_cache and neither done
C36_TwoUpdatesInFlight ==
    /\ Len(workers) = 2
    /\ workers[1].op = "update_site" /\ workers[1].step = "loaded"
    /\ workers[2].op = "update_site" /\ workers[2].step = "loaded"

\* the complete update_site run that follows a killed one, with its flags
RecoveryStep ==
    /\ interrupted.pending
    /\ interrupted' = interrupted
    /\ nUpdates = interrupted.run
    /\ nUpdates' = nUpdates + 1
    /\ last_update'.flags.update_index = interrupted.flags.update_index
    /\ last_update'.flags.update_videos = interrupted.flags.update_videos

\* the run reports none of the artifacts the killed run had written
WrittenDiffUnchanged ==
    /\ NamesOf("page", last_update'.changed_files) \cap interrupted.written = {}
    /\ interrupted.index => CountOfKind("index", last_update'.changed_files) = 0

\* the tree the same run leaves when it is made on the tree no run was killed on
Uninterrupted ==
    update_site(last_update'.flags, load_cache, load_removed, interrupted.before.dir,
                interrupted.before.index, interrupted.before.sitemap, now, preview)

TreeAsUninterrupted ==
    \E u \in {Uninterrupted} :
        /\ videos_dir' = u.dir
        /\ index_html' = u.index
        /\ sitemap_xml' = u.sitemap

\* C37: the complete update_site run that follows a killed one on the same
\* store leaves the pages, the index and the sitemap an uninterrupted run
\* leaves, and reports no artifact the killed run had already written as
\* changed.
C37_RerunRecovers ==
    [][RecoveryStep => TreeAsUninterrupted /\ WrittenDiffUnchanged]_vars

\* every live record has dates and a page name no other record has
DatedAndUnshared ==
    /\ \A k \in 1..Len(LiveVideos) : LiveVideos[k].data # 0
    /\ \A j, k \in 1..Len(LiveVideos) :
          output_basename(LiveVideos[j]) = output_basename(LiveVideos[k]) => j = k
    /\ ~RemovedSharesPage

\* what holds: the tree is the uninterrupted run's whatever the store
C37_RerunLeavesSameTree ==
    [][RecoveryStep => TreeAsUninterrupted]_vars

\* what holds: nothing the killed run wrote is reported changed when every
\* live record has dates and a page name no other record has
C37_WrittenUnchangedDatedUnshared ==
    [][RecoveryStep /\ DatedAndUnshared => WrittenDiffUnchanged]_vars

\* a killed run was followed by a complete one
C37_Recovered ==
    /\ interrupted.pending
    /\ nUpdates = interrupted.run + 1
    /\ last_update.flags.update_videos = interrupted.flags.update_videos
    /\ last_update.flags.update_index = interrupted.flags.update_index
    /\ interrupted.written # {}

\* C39: a discovery pass on a listing that carries a next-page token on every
\* page ends: fetch_latest and fetch_all return or raise after finitely many
\* listing calls, the day's ledger not rolling over during the pass.
C39_DiscoveryTerminates == Discovering ~> pc = "done"

\* a pass was ended by the budget check with a next-page token in hand,
\* after it had listed more than one page
C39_Witness ==
    /\ pc = "done"
    /\ run.next_page
    /\ ~MaxPagesReached
    /\ result.status = "returned"
    /\ StoppedEarly \in Range(result.errors)
    /\ trace.listed >= 3

\* ---------------------------------------------------------------------
\* Progress composers: deploy._p and be_progress
\* ---------------------------------------------------------------------

\* feeds of one composer run
MaxFeeds == 6

\* max(0.0, min(1.0, float(frac)))
clamp(frac) == Max(0, IF frac < Unit THEN frac ELSE Unit)

\* deploy._p without "if f < last[0]: f = last[0]"
p_NoHold(prev, frac) == clamp(frac)

\* deploy._p: the fraction passed on after the last one was prev
p(prev, frac) ==
    LET f == clamp(frac)
    IN  IF f < prev THEN prev ELSE f

\* be_progress: the fraction shown after the last one was prev
be_progress(prev, pct) ==
    LET q == clamp(pct)
    IN  IF prev > q THEN prev ELSE q

\* the fractions a caller may report: below 0, inside [0, 1], above 1
Fractions == {0 - 10000, 5000, 10000, 20000, 30000, 90000, 120000}

\* one call of _p(frac) and of be_progress(frac) from a single thread
Feed(frac) ==
    /\ threads = NoThreads
    /\ Len(fed) < MaxFeeds
    /\ fed' = Append(fed, frac)
    /\ last' = p(last, frac)
    /\ observed' = Append(observed, p(last, frac))
    /\ be_last' = be_progress(be_last, frac)
    /\ UNCHANGED <<now, ledgerVars, storeVars, taskVars, siteVars, uiVars, threads>>

InitComposer ==
    /\ InitTasks
    /\ NoSite
    /\ removed_json = {}
    /\ ledger = LoadedLedger(0, <<0, 0>>)
    /\ videos_json = <<>>

NextComposer == \E frac \in Fractions : Feed(frac)

SpecComposer == InitComposer /\ [][NextComposer]_vars

\* the largest clamped value among the first k values fed
RECURSIVE RunningMax(_, _)
RunningMax(seq, k) ==
    IF k = 0 THEN 0 ELSE Max(clamp(seq[k]), RunningMax(seq, k - 1))

\* C16: fed from one thread, a composer passes on at each step the largest
\* clamped value fed so far: deploy._p to its observer, step by step, and
\* be_progress to the bar.
C16_RunningMaxOfClamped ==
    /\ Len(observed) = Len(fed)
    /\ \A k \in 1..Len(fed) : observed[k] = RunningMax(fed, k)
    /\ last = RunningMax(fed, Len(fed))
    /\ be_last = RunningMax(fed, Len(fed))

\* the sequence 0.1, 0.05, 0.3, 0.3, 0.9, 0.2 was fed and 0.1, 0.1, 0.3,
\* 0.3, 0.9, 0.9 was passed on
C16_Witness ==
    /\ fed = <<10000, 5000, 30000, 30000, 90000, 20000>>
    /\ observed = <<10000, 10000, 30000, 30000, 90000, 90000>>
    /\ be_last = 90000

\* ---------------------------------------------------------------------
\* The progress reports of one update_site run: the publishing thread
\* reports through update_site._prog and, inside deploy, through _p and
\* _dprog; google_sitemap_ping starts a trickle thread that reports
\* through the same _p. The files the run writes are those of UpdateSite.
\* ---------------------------------------------------------------------

\* loop rounds of the trickle thread before the ping request returns
MaxRounds == 2

Report(via, frac) == [via |-> via, frac |-> frac]

RECURSIVE Reports(_, _, _)
Reports(via, fracs, k) ==
    IF k > Len(fracs) THEN <<>>
    ELSE <<Report(via, fracs[k])>> \o Reports(via, fracs, k + 1)

\* 0.08 + 0.60 * (i / max(1, n)) for i = 1..n
rendering_reports(n) == [i \in 1..n |-> 8000 + (60000 * i) \div Max(1, n)]

\* update_site's own reports up to the deploy
update_site_reports(update_index, update_videos, dry_run, n) ==
    <<2000, 6000>>
    \o (IF update_videos THEN rendering_reports(n) ELSE <<>>)
    \o (IF update_index THEN <<72000>> ELSE <<>>)
    \o <<86000>>
    \o (IF dry_run THEN <<>> ELSE <<92000>>)

\* indexnow_submit: prog(1.0) when skipped, prog(i / total) per url
indexnow_reports(requests_ok, nurls) ==
    IF ~requests_ok THEN <<>>
    ELSE IF nurls = 0 THEN <<82000 + (10 * clamp(Unit)) \div 100>>
    ELSE [i \in 1..nurls |-> 82000 + (10 * clamp((Unit * i) \div nurls)) \div 100]

\* google_sitemap_ping as the publishing thread runs it
google_sitemap_ping(requests_ok) ==
    IF ~requests_ok THEN <<Report("_p", 92000 + (6 * clamp(Unit)) \div 100)>>
    ELSE <<Report("start", 0), Report("stop", 0),
           Report("_p", 92000 + (6 * clamp(Unit)) \div 100)>>

\* the calls of _p the publishing thread makes in deploy
deploy(opened, dirty, origin, requests_ok, nurls) ==
    IF ~opened THEN Reports("_p", <<2000, 100000>>, 1)
    ELSE Reports("_p", <<2000, 6000, 10000>>
                       \o (IF dirty THEN <<18000>> ELSE <<>>)
                       \o <<30000>>
                       \o (IF origin THEN <<40000>> ELSE <<>>)
                       \o <<82000>>
                       \o indexnow_reports(requests_ok, nurls)
                       \o <<92000>>, 1)
         \o google_sitemap_ping(requests_ok)
         \o Reports("_p", <<100000>>, 1)

\* everything the publishing thread does about progress in one run
Script(update_index, update_videos, dry_run, n, opened, dirty, origin, requests_ok, nurls) ==
    Reports("_prog", update_site_reports(update_index, update_videos, dry_run, n), 1)
    \o (IF dry_run THEN <<>> ELSE deploy(opened, dirty, origin, requests_ok, nurls))
    \o Reports("_prog", <<100000>>, 1)

\* update_site._dprog then _prog: 0.92 + 0.08 * f, clamped
dprog(frac) == clamp(92000 + (8 * clamp(frac)) \div 100)

\* the lambda deploy hands to google_sitemap_ping: 0.92 + 0.06 * r
ping_frac(r) == 92000 + (6 * clamp(r)) \div 100

UrlCounts == {0, 2}

PublishStarts(update_index, update_videos, dry_run, opened, dirty, origin, requests_ok, nurls) ==
    /\ pc = "idle"
    /\ threads = NoThreads
    /\ fed = <<>>
    /\ threads' = [NoThreads EXCEPT
                      !.main = "ready",
                      !.at = 1,
                      !.script = Script(update_index, update_videos, dry_run,
                                        Len(live_videos(load_cache, load_removed)),
                                        opened, dirty, origin, requests_ok, nurls)]
    /\ last' = 0
    /\ observed' = <<>>
    /\ UNCHANGED <<now, ledgerVars, storeVars, taskVars, siteVars, uiVars, be_last, fed>>

MainAt(via) ==
    /\ threads.main = "ready"
    /\ threads.at <= Len(threads.script)
    /\ threads.script[threads.at].via = via

\* update_site._prog(pct) outside the deploy
MainProg ==
    /\ MainAt("_prog")
    /\ observed' = Append(observed, clamp(threads.script[threads.at].frac))
    /\ threads' = [threads EXCEPT !.at = @ + 1]
    /\ UNCHANGED <<now, ledgerVars, storeVars, taskVars, siteVars, uiVars, last, be_last, fed>>

\* _p, lines 1663-1665: clamp and compare with last[0]
MainHold ==
    /\ MainAt("_p")
    /\ threads' = [threads EXCEPT !.main = "held",
                                  !.f = p(last, threads.script[threads.at].frac)]
    /\ UNCHANGED <<now, ledgerVars, storeVars, taskVars, siteVars, uiVars, last, be_last, fed, observed>>

\* _p, line 1666: last[0] = f
MainStore ==
    /\ threads.main = "held"
    /\ last' = threads.f
    /\ threads' = [threads EXCEPT !.main = "stored"]
    /\ UNCHANGED <<now, ledgerVars, storeVars, taskVars, siteVars, uiVars, be_last, fed, observed>>

\* _p, line 1667: prog(f), which is _dprog and then _prog
MainDeliver ==
    /\ threads.main = "stored"
    /\ observed' = Append(observed, dprog(threads.f))
    /\ threads' = [threads EXCEPT !.main = "ready", !.at = @ + 1]
    /\ UNCHANGED <<now, ledgerVars, storeVars, taskVars, siteVars, uiVars, last, be_last, fed>>

\* google_sitemap_ping starts the trickle thread and sends the request
MainStartsTrickle ==
    /\ MainAt("start")
    /\ threads' = [threads EXCEPT !.at = @ + 1, !.trickle = "loop", !.t = 0]
    /\ UNCHANGED <<now, ledgerVars, storeVars, taskVars, siteVars, uiVars, last, be_last, fed, observed>>

\* the finally block: stop["flag"] = True; th.join(timeout=0.05) returns
\* whether or not the thread has ended
MainStopsTrickle ==
    /\ MainAt("stop")
    /\ threads' = [threads EXCEPT !.at = @ + 1, !.stop = TRUE]
    /\ UNCHANGED <<now, ledgerVars, storeVars, taskVars, siteVars, uiVars, last, be_last, fed, observed>>

\* while not stop["flag"] and t < 0.85: t = min(0.85, t + 0.05)
TrickleLoop ==
    /\ threads.trickle = "loop"
    /\ IF ~threads.stop /\ threads.t < 85000
       THEN /\ threads.rounds < MaxRounds
            /\ threads' = [threads EXCEPT !.trickle = "call", !.rounds = @ + 1,
                                          !.t = IF @ + 5000 < 85000 THEN @ + 5000 ELSE 85000]
       ELSE threads' = [threads EXCEPT !.trickle = "ended"]
    /\ UNCHANGED <<now, ledgerVars, storeVars, taskVars, siteVars, uiVars, last, be_last, fed, observed>>

\* prog(t): the lambda and _p, lines 1663-1665
TrickleHold ==
    /\ threads.trickle = "call"
    /\ threads' = [threads EXCEPT !.trickle = "held", !.tf = p(last, ping_frac(threads.t))]
    /\ UNCHANGED <<now, ledgerVars, storeVars, taskVars, siteVars, uiVars, last, be_last, fed, observed>>

TrickleStore ==
    /\ threads.trickle = "held"
    /\ last' = threads.tf
    /\ threads' = [threads EXCEPT !.trickle = "stored"]
    /\ UNCHANGED <<now, ledgerVars, storeVars, taskVars, siteVars, uiVars, be_last, fed, observed>>

TrickleDeliver ==
    /\ threads.trickle = "stored"
    /\ observed' = Append(observed, dprog(threads.tf))
    /\ threads' = [threads EXCEPT !.trickle = "sleep"]
    /\ UNCHANGED <<now, ledgerVars, storeVars, taskVars, siteVars, uiVars, last, be_last, fed>>

\* time.sleep(0.25) is over
TrickleWakes ==
    /\ threads.trickle = "sleep"
    /\ threads' = [threads EXCEPT !.trickle = "loop"]
    /\ UNCHANGED <<now, ledgerVars, storeVars, taskVars, siteVars, uiVars, last, be_last, fed, observed>>

InitProgress ==
    /\ InitTasks
    /\ NoSite
    /\ ledger = LoadedLedger(0, <<0, 0>>)
    /\ videos_json \in PublishStores

NextProgress ==
    \/ \E update_index \in BOOLEAN, update_videos \in BOOLEAN, dry_run \in BOOLEAN,
          opened \in BOOLEAN, dirty \in BOOLEAN, origin \in BOOLEAN,
          requests_ok \in BOOLEAN, nurls \in UrlCounts :
          PublishStarts(update_index, update_videos, dry_run, opened, dirty, origin,
                        requests_ok, nurls)
    \/ MainProg
    \/ MainHold
    \/ MainStore
    \/ MainDeliver
    \/ MainStartsTrickle
    \/ MainStopsTrickle
    \/ TrickleLoop
    \/ TrickleHold
    \/ TrickleStore
    \/ TrickleDeliver
    \/ TrickleWakes

SpecProgress == InitProgress /\ [][NextProgress]_vars

\* C17: within one publish run the values passed to the progress observer
\* never decrease, whatever the flags and however the trickle thread
\* interleaves with the publishing thread.
C17_ObservedNeverDecreases ==
    \A i \in 1..Len(observed) : \A j \in i..Len(observed) : observed[i] <= observed[j]

====
